---- MODULE Spec2Model ----
(***************************************************************************)
(* carp-streamer: a local directory tree is synchronized to a remote Box   *)
(* folder.  The model has the remote store, the resolver's shared cache    *)
(* (BoxFinder), the retry wrappers, the local tree walker and the bounded  *)
(* queue of workers.                                                       *)
(*                                                                         *)
(* Atomicity follows the JavaScript event loop: a step of a worker runs    *)
(* from the arrival of one remote response to the sending of the next      *)
(* request (Continue); the remote serves a request in a step of its own    *)
(* (Serve), so responses of concurrent workers arrive in any order.        *)
(***************************************************************************)
EXTENDS Integers, Sequences, FiniteSets, TLC

VARIABLES
  remote,      \* the remote store: the set of remote entities other than the root
  nextId,      \* the next id the remote assigns
  cache,       \* BoxFinder.cache: parent folder id -> sequence of observed items
  proc,        \* one frame per worker of the queue
  queue,       \* async.queue: tasks pushed and not yet taken
  walked,      \* how many entries of the traversal have been pushed
  tasks,       \* per task of the current run: state, outcome, report
  prev,        \* the outcomes of the previous run (run 2 only)
  run,         \* 1 or 2: the run in progress
  cfg,         \* the command line and the scenario
  faultsLeft,  \* how many more failures the remote may still inject
  main         \* where the main function of the command is

vars == <<remote, nextId, cache, proc, queue, walked, tasks, prev, run, cfg, faultsLeft, main>>

(***************************************************************************)
(* Bounds of the model.                                                    *)
(***************************************************************************)
Concurrency == 2        \* workers of the queue (the program's default is 10)
PageSize == 1           \* entries per listing page (the remote's limit)
MaxFaults == 1          \* failures the remote injects in a synchronization run
RetryFaults == 7        \* failures the remote injects in SpecRetry
MaxRuns == 2            \* synchronization runs in a row
MaxId == 6              \* the largest id the remote assigns
MaxMerge == 3           \* entities merged into the cache in SpecCache

(***************************************************************************)
(* Program constants.                                                      *)
(***************************************************************************)
INIT_RETRY_TIMES == 5

CHUNKED_UPLOAD_MINIMUM == 20000000

Workers == 1..Concurrency

(***************************************************************************)
(* Names.  Normalize is String.prototype.normalize() (NFC): "bar_nfd"      *)
(* stands for the decomposed spelling of the name whose composed spelling  *)
(* is "bar_nfc", and "foo_nfd" for that of "foo_nfc".                      *)
(***************************************************************************)
NormalizeNothing(n) == n

Normalize(n) ==
  CASE n = "bar_nfd" -> "bar_nfc"
    [] n = "foo_nfd" -> "foo_nfc"
    [] OTHER -> n

(***************************************************************************)
(* Remote entities (box.Item).  A full entity is what get/create/upload    *)
(* answer (it has size and parent); a listing entry is a mini entity       *)
(* without them.  NoItem stands for undefined.                             *)
(***************************************************************************)
NoItem == [type |-> "none", id |-> -1, name |-> "", parent |-> -1,
           etag |-> 0, sha1 |-> "", full |-> FALSE]

RootId == 0

Root == [type |-> "folder", id |-> RootId, name |-> "All Files", parent |-> -1,
         etag |-> 0, sha1 |-> "", full |-> TRUE]

Mini(it) == [it EXCEPT !.full = FALSE, !.parent = -1]

isMiniFile(item) == item.type = "file"

isMiniFolder(item) == item.type = "folder"

isFolder(item) == item.full

IsAnyKind(kind, item) == item # NoItem

IsKind(kind, item) == IF kind = "file" THEN isMiniFile(item) ELSE isMiniFolder(item)

(***************************************************************************)
(* Sequence helpers.                                                       *)
(***************************************************************************)
First(s) == IF s = <<>> THEN NoItem ELSE Head(s)

RECURSIVE SortedIds(_)
SortedIds(S) ==
  IF S = {} THEN <<>>
  ELSE LET m == CHOOSE x \in S : \A y \in S : x <= y
       IN <<m>> \o SortedIds(S \ {m})

FirstN(s, n) == IF Len(s) <= n THEN s ELSE SubSeq(s, 1, n)

IsPrefix(p, s) == Len(p) <= Len(s) /\ SubSeq(s, 1, Len(p)) = p

(***************************************************************************)
(* Requests, responses and errors.  A failed call throws its response (a   *)
(* ResponseError with statusCode, the conflicting item of a 409 and the    *)
(* retry-after hint of a 429); the other errors have negative codes.       *)
(***************************************************************************)
Req(op, id, type, name, marker, etag, sha1) ==
  [op |-> op, id |-> id, type |-> type, name |-> name, marker |-> marker,
   etag |-> etag, sha1 |-> sha1]

NoReq == Req("none", -1, "", "", 0, 0, "")

Resp(code, item, entries, next, hint) ==
  [code |-> code, item |-> item, entries |-> entries, next |-> next, hint |-> hint]

NoResp == Resp(0, NoItem, <<>>, 0, 0)

NoError == NoResp

UnknownStatusError == Resp(-1, NoItem, <<>>, 0, 0)   \* new Error('unknown result status')
DigestError == Resp(-2, NoItem, <<>>, 0, 0)          \* the read stream's 'error' event
AssertionError == Resp(-3, NoItem, <<>>, 0, 0)       \* assert.fail(...)

isResponseError(e) == e.code > 0

findConflictItem(error) == IF error.code = 409 THEN error.item ELSE NoItem

(***************************************************************************)
(* The remote API (external; its contract is section 6 of the design).     *)
(* Names are unique among the folders and among the files of a parent.     *)
(* A listing is ordered by id and the marker is the last id of a page.     *)
(***************************************************************************)
ItemsOf(store, parentId) == {it \in store : it.parent = parentId}

ItemById(store, id) ==
  IF \E it \in store : it.id = id THEN CHOOSE it \in store : it.id = id
  ELSE IF id = RootId THEN Root ELSE NoItem

Named(store, parentId, type, name) ==
  {it \in ItemsOf(store, parentId) : it.type = type /\ it.name = name}

ListPage(store, parentId, marker) ==
  LET ids == SortedIds({it.id : it \in {x \in ItemsOf(store, parentId) : x.id > marker}})
      page == FirstN(ids, PageSize)
  IN Resp(200, NoItem, [k \in 1..Len(page) |-> Mini(ItemById(store, page[k]))],
          IF Len(ids) > PageSize THEN page[Len(page)] ELSE 0, 0)

NewFolder(id, parentId, name) ==
  [type |-> "folder", id |-> id, name |-> name, parent |-> parentId,
   etag |-> 0, sha1 |-> "", full |-> TRUE]

NewFile(id, parentId, name, sha1) ==
  [type |-> "file", id |-> id, name |-> name, parent |-> parentId,
   etag |-> 0, sha1 |-> sha1, full |-> TRUE]

\* The answer of the remote to a request, and the store and id counter after it.
Answer(store, nid, rq) ==
  LET same(type) == Named(store, rq.id, type, rq.name)
      it == ItemById(store, rq.id)
      ans(r, s, n) == [resp |-> r, store |-> s, nid |-> n]
  IN CASE rq.op = "list" -> ans(ListPage(store, rq.id, rq.marker), store, nid)
       [] rq.op = "get" ->
            IF it = NoItem \/ it.type # "folder"
            THEN ans(Resp(404, NoItem, <<>>, 0, 0), store, nid)
            ELSE ans(Resp(200, it, <<>>, 0, 0), store, nid)
       [] rq.op = "cond" ->
            IF it = NoItem \/ it.type # rq.type
            THEN ans(Resp(404, NoItem, <<>>, 0, 0), store, nid)
            ELSE IF it.etag = rq.etag THEN ans(Resp(304, NoItem, <<>>, 0, 0), store, nid)
            ELSE ans(Resp(200, it, <<>>, 0, 0), store, nid)
       [] rq.op = "create" ->
            IF same("folder") # {}
            THEN ans(Resp(409, Mini(CHOOSE x \in same("folder") : TRUE), <<>>, 0, 0), store, nid)
            ELSE ans(Resp(200, NewFolder(nid, rq.id, rq.name), <<>>, 0, 0),
                     store \cup {NewFolder(nid, rq.id, rq.name)}, nid + 1)
       [] rq.op \in {"preflight", "session"} ->
            IF same("file") # {}
            THEN ans(Resp(409, Mini(CHOOSE x \in same("file") : TRUE), <<>>, 0, 0), store, nid)
            ELSE ans(Resp(200, NoItem, <<>>, 0, 0), store, nid)
       [] rq.op \in {"upload", "commit"} ->
            IF same("file") # {}
            THEN ans(Resp(409, Mini(CHOOSE x \in same("file") : TRUE), <<>>, 0, 0), store, nid)
            ELSE ans(Resp(200, NoItem, <<NewFile(nid, rq.id, rq.name, rq.sha1)>>, 0, 0),
                     store \cup {NewFile(nid, rq.id, rq.name, rq.sha1)}, nid + 1)
       [] rq.op \in {"preflightV", "sessionV"} ->
            IF it = NoItem \/ it.type # "file"
            THEN ans(Resp(404, NoItem, <<>>, 0, 0), store, nid)
            ELSE ans(Resp(200, NoItem, <<>>, 0, 0), store, nid)
       [] rq.op \in {"uploadV", "commitV"} ->
            IF it = NoItem \/ it.type # "file"
            THEN ans(Resp(404, NoItem, <<>>, 0, 0), store, nid)
            ELSE LET v == [it EXCEPT !.sha1 = rq.sha1, !.etag = @ + 1]
                 IN ans(Resp(200, NoItem, <<v>>, 0, 0), (store \ {it}) \cup {v}, nid)
       [] rq.op = "delete" ->
            \* the service can delete an entity; no method the code calls asks for it
            IF it = NoItem THEN ans(Resp(404, NoItem, <<>>, 0, 0), store, nid)
            ELSE ans(Resp(200, NoItem, <<>>, 0, 0), store \ {it}, nid)
       [] OTHER -> ans(NoResp, store, nid)

IsMutation(rq) == rq.op \in {"create", "upload", "uploadV", "commit", "commitV"}

(***************************************************************************)
(* The cache (an LRU map from a parent folder id to the items observed     *)
(* under it).  cache.get(k) || [] is <<>> for an absent key.               *)
(***************************************************************************)
SameEntity(a, b) == a.type = b.type /\ a.id = b.id

\* _.unionWith(xs, ys, SameEntity): the elements of xs then ys, first occurrence kept
RECURSIVE UnionWith(_, _)
UnionWith(acc, rest) ==
  IF rest = <<>> THEN acc
  ELSE IF \E k \in 1..Len(acc) : SameEntity(acc[k], Head(rest))
       THEN UnionWith(acc, Tail(rest))
       ELSE UnionWith(Append(acc, Head(rest)), Tail(rest))

cacheItemKeepOld(c, newItem) ==
  [c EXCEPT ![newItem.parent] = UnionWith(c[newItem.parent], <<newItem>>)]

cacheItemAppend(c, newItem) ==
  [c EXCEPT ![newItem.parent] = <<newItem>> \o c[newItem.parent]]

\* cacheItem(cache)(newItem), for a newItem that has a parent
cacheItem(c, newItem) ==
  [c EXCEPT ![newItem.parent] = UnionWith(<<newItem>>, c[newItem.parent])]

cacheItemsForgotten(c, entries) == c

RECURSIVE cacheItems(_, _)
cacheItems(c, entries) ==
  IF entries = <<>> THEN c
  ELSE cacheItems(cacheItem(c, Head(entries)), Tail(entries))

cachePageDropped(c, parentId, marker, entries) == c

\* fetchFolderItems: the page is appended to the entry, or replaces it on the first page
cachePage(c, parentId, marker, entries) ==
  [c EXCEPT ![parentId] = (IF marker # 0 THEN c[parentId] ELSE <<>>) \o entries]

(***************************************************************************)
(* A worker's frame: where it is in worker -> Entry.create -> synchronize  *)
(* -> BoxFinder, with the locals that survive an await.                    *)
(*   stage: resolveDir | resolveFile   Entry.create                        *)
(*          ensure | ensureFile        createFolderUnlessItExists from     *)
(*                                     Directory / File.synchronize        *)
(*          upgrade                    uploadNewFileVersion                *)
(*          api                        createFolderUnlessItExists called   *)
(*                                     directly; open: BoxFinder.create    *)
(*   phase: find | make | file         findFolderByPath, createFolderByPath*)
(*                                     findFileByName                      *)
(***************************************************************************)
Idle ==
  [task |-> 0, pc |-> "idle", stage |-> "", phase |-> "", path |-> <<>>,
   dirs |-> <<>>, i |-> 0,
   cur |-> NoItem, base |-> "", cached |-> NoItem, adopt |-> FALSE,
   req |-> NoReq, resp |-> NoResp, rt |-> 0, rc |-> 0, delay |-> 0,
   found |-> NoItem, status |-> "", error |-> NoError, result |-> NoItem,
   ncalls |-> 0, nmut |-> 0, attempts |-> 0, n429 |-> 0, nother |-> 0,
   args |-> {}, last |-> NoResp, creates |-> <<>>, seg |-> 0, stats |-> {},
   sleeps |-> 0]

\* a call through a proxied manager: makeRetriable(property, subject, retryIfTooManyRequestsError)
Issue(f, rq) ==
  [f EXCEPT !.pc = "call", !.req = rq, !.resp = NoResp, !.rt = INIT_RETRY_TIMES,
            !.delay = 0, !.attempts = 0, !.n429 = 0, !.nother = 0, !.args = {},
            !.sleeps = 0]

\* the same call again: makeRetriable(method, that, callback, retryTimes - 1, retryAfter)(...args)
Reissue(f, rt, rc, delay) ==
  [f EXCEPT !.pc = "call", !.resp = NoResp, !.rt = rt, !.rc = rc, !.delay = delay,
            !.sleeps = @ + 1]

Finish(f, status) == [f EXCEPT !.pc = "fin", !.status = status]

ThrowNothing(f, e) == [f EXCEPT !.pc = "fin", !.status = "FAILURE", !.error = NoError]

Throw(f, e) == [f EXCEPT !.pc = "fin", !.status = "FAILURE", !.error = e]

WantName(f) == IF f.phase = "file" THEN f.base ELSE f.dirs[f.i]

WantKind(f) == IF f.phase = "file" THEN "file" ELSE "folder"

MatchesAsFile(item, kind, itemName) ==
  isMiniFile(item) /\ item.name # "" /\ Normalize(item.name) = Normalize(itemName)

\* the filter of findItemByName
Matches(item, kind, itemName) ==
  IsKind(kind, item) /\ item.name # "" /\ Normalize(item.name) = Normalize(itemName)

FirstMatch(items, kind, itemName) ==
  First(SelectSeq(items, LAMBDA it : Matches(it, kind, itemName)))

(***************************************************************************)
(* The resolver and the entries, from one await to the next.  Each         *)
(* operator takes the frame and the cache as they are when the code is     *)
(* entered and yields the frame at the next await (pc = "call": a request  *)
(* is sent; "digest": the file is being read) or at the end of the task    *)
(* (pc = "fin").                                                           *)
(***************************************************************************)
RECURSIVE findItemByName(_, _), AfterFindItem(_, _, _), findFolderByPath(_, _),
          createFolderByPath(_, _), AfterFindFolder(_, _, _),
          AfterCreateFolderUnless(_, _, _), createFolderUnlessItExists(_, _, _),
          FileSynchronize(_, _, _), DirectorySynchronize(_, _, _)

\* BoxFinder.findItemByName(itemName, isItem, parentFolder = f.cur)
findItemByName(f, c) ==
  LET cachedItem == FirstMatch(c[f.cur.id], WantKind(f), WantName(f))
  IN IF cachedItem # NoItem
     THEN IF cfg.disableValidation
          THEN AfterFindItem(f, cachedItem, c)
          ELSE \* fetchItemWithCondition: this.client.get, not a proxied manager
               [Issue([f EXCEPT !.cached = cachedItem],
                      Req("cond", cachedItem.id, cachedItem.type, "", 0, cachedItem.etag, ""))
                  EXCEPT !.rt = 0]
     ELSE Issue(f, Req("list", f.cur.id, "", "", 0, 0, ""))

createFolderUnderRoot(f) ==
  [Issue(f, Req("create", RootId, "", f.dirs[f.i], 0, 0, ""))
     EXCEPT !.rc = INIT_RETRY_TIMES, !.adopt = FALSE]

\* BoxFinder.createFolder(folderName, parentFolder = f.cur)
createFolder(f) ==
  [Issue(f, Req("create", f.cur.id, "", f.dirs[f.i], 0, 0, ""))
     EXCEPT !.rc = INIT_RETRY_TIMES, !.adopt = FALSE]

AfterFindItemInPlace(f, item, c) ==
  CASE f.phase = "find" ->
         IF item = NoItem THEN AfterFindFolder(f, NoItem, c)
         ELSE findFolderByPath([f EXCEPT !.i = @ + 1], c)
    [] f.phase = "make" ->
         IF item = NoItem THEN createFolder(f)
         ELSE createFolderByPath([f EXCEPT !.cur = item, !.i = @ + 1], c)
    [] f.stage = "lookupFile" -> Finish([f EXCEPT !.result = item], "RETURNED")
    [] OTHER -> FileSynchronize([f EXCEPT !.found = item], item, c)

\* the caller of findItemByName goes on with its result (NoItem: undefined)
AfterFindItem(f, item, c) ==
  CASE f.phase = "find" ->
         IF item = NoItem THEN AfterFindFolder(f, NoItem, c)
         ELSE findFolderByPath([f EXCEPT !.cur = item, !.i = @ + 1], c)
    [] f.phase = "make" ->
         IF item = NoItem THEN createFolder(f)
         ELSE createFolderByPath([f EXCEPT !.cur = item, !.i = @ + 1], c)
    [] f.stage = "lookupFile" ->
         \* findFileByPath returns what findFileByName gave
         Finish([f EXCEPT !.result = item], "RETURNED")
    [] OTHER -> FileSynchronize([f EXCEPT !.found = item], item, c)

findFolderByPathLost(f, c) ==
  IF f.i > Len(f.dirs) THEN AfterFindFolder(f, NoItem, c)
  ELSE findItemByName(f, c)

\* static BoxFinder.findFolderByPath(folderPath = dirs from i, finder at f.cur)
findFolderByPath(f, c) ==
  IF f.i > Len(f.dirs)
  THEN IF isFolder(f.cur) THEN AfterFindFolder(f, f.cur, c)
       ELSE Issue(f, Req("get", f.cur.id, "", "", 0, 0, ""))
  ELSE findItemByName(f, c)

\* static BoxFinder.createFolderByPath(folderPath = dirs from i, finder at f.cur)
createFolderByPath(f, c) ==
  IF f.i > Len(f.dirs)
  THEN IF isFolder(f.cur) THEN AfterCreateFolderUnless(f, f.cur, c)
       ELSE Issue(f, Req("get", f.cur.id, "", "", 0, 0, ""))
  ELSE findItemByName(f, c)

\* BoxFinder.createFolderUnlessItExists(relativePath), on the finder of the run
createFolderUnlessItExists(f, dirs, c) ==
  findFolderByPath([f EXCEPT !.phase = "find", !.dirs = dirs, !.i = 1, !.cur = Root], c)

\* BoxFinder.uploadFile(name, content, stats, folder): the preflight check comes first
uploadFile(f, folder) ==
  Issue(f, Req("preflight", folder.id, "", f.base, 0, 0, ""))

\* BoxFinder.uploadNewFileVersion(file, content, stats)
uploadNewFileVersion(f, file) ==
  IF file.name = "" THEN Throw(f, AssertionError)
  ELSE Issue(f, Req("preflightV", file.id, "", file.name, 0, 0, ""))

\* the caller of findFolderByPath goes on with its result (NoItem: undefined)
AfterFindFolder(f, folder, c) ==
  CASE f.stage = "resolveDir" -> DirectorySynchronize([f EXCEPT !.found = folder], folder, c)
    [] f.stage = "resolveFile" ->
         \* findFileByPath: folder && this.findFileByName(base, folder)
         IF folder = NoItem THEN FileSynchronize([f EXCEPT !.found = NoItem], NoItem, c)
         ELSE findItemByName([f EXCEPT !.phase = "file", !.cur = folder], c)
    [] f.stage = "lookup" ->
         \* findFolderByPath(relativePath) returns the folder, or undefined
         Finish([f EXCEPT !.result = folder], "RETURNED")
    [] f.stage = "lookupFile" ->
         \* findFileByPath: folder && this.findFileByName(base, folder)
         IF folder = NoItem THEN Finish([f EXCEPT !.result = NoItem], "RETURNED")
         ELSE findItemByName([f EXCEPT !.phase = "file", !.cur = folder], c)
    [] f.stage = "chain" ->
         \* one findFolderByPath per segment, each on a finder made by
         \* BoxFinder.create(client, folder.id, cache) for the folder found before
         IF folder = NoItem \/ f.seg = Len(f.path)
         THEN Finish([f EXCEPT !.result = folder], "RETURNED")
         ELSE [Issue(f, Req("get", folder.id, "", "", 0, 0, ""))
                 EXCEPT !.phase = "open", !.seg = @ + 1]
    [] OTHER ->
         \* createFolderUnlessItExists: foundFolder || createFolderByPath(dirs, this)
         IF folder # NoItem THEN AfterCreateFolderUnless(f, folder, c)
         ELSE createFolderByPath([f EXCEPT !.phase = "make", !.i = 1, !.cur = Root], c)

AfterCreateFolderUnlessInCurrent(f, folder, c) ==
  CASE f.stage = "ensure" -> Finish(f, "CREATED")
    [] f.stage = "ensureFile" -> uploadFile(f, Root)
    [] OTHER -> Finish([f EXCEPT !.result = folder], "RETURNED")

\* the caller of createFolderUnlessItExists goes on with the folder
AfterCreateFolderUnless(f, folder, c) ==
  CASE f.stage = "ensure" -> Finish(f, "CREATED")
    [] f.stage = "ensureFile" -> uploadFile(f, folder)
    [] OTHER -> Finish([f EXCEPT !.result = folder], "RETURNED")

DirectorySynchronizeAfresh(f, remoteFolder, c) ==
  IF remoteFolder # NoItem
  THEN Issue(f, Req("delete", remoteFolder.id, "", "", 0, 0, ""))
  ELSE IF ~cfg.pretend
       THEN createFolderUnlessItExists([f EXCEPT !.stage = "ensure"], f.path, c)
       ELSE Finish(f, "CREATED")

DirectorySynchronizeNoCreate(f, remoteFolder, c) ==
  IF remoteFolder # NoItem THEN Finish(f, "SYNCHRONIZED")
  ELSE Finish(f, "CREATED")

\* Directory.synchronize(pretend), entered when Entry.create has resolved remoteFolder
DirectorySynchronize(f, remoteFolder, c) ==
  IF remoteFolder # NoItem THEN Finish(f, "SYNCHRONIZED")
  ELSE IF ~cfg.pretend
       THEN createFolderUnlessItExists([f EXCEPT !.stage = "ensure"], f.path, c)
       ELSE Finish(f, "CREATED")

FileSynchronizeForReal(f, remoteFile, c) ==
  IF remoteFile = NoItem
  THEN createFolderUnlessItExists([f EXCEPT !.stage = "ensureFile"],
                                  SubSeq(f.path, 1, Len(f.path) - 1), c)
  ELSE [f EXCEPT !.pc = "digest"]

\* File.synchronize(pretend), entered when Entry.create has resolved remoteFile
FileSynchronize(f, remoteFile, c) ==
  IF remoteFile = NoItem
  THEN IF ~cfg.pretend
       THEN createFolderUnlessItExists([f EXCEPT !.stage = "ensureFile"],
                                       SubSeq(f.path, 1, Len(f.path) - 1), c)
       ELSE Finish(f, "UPLOADED")
  ELSE [f EXCEPT !.pc = "digest"]

(***************************************************************************)
(* The retry policy.  A thrown error travels outwards through the wrappers *)
(* of the call; a frame with pc = "throw" carries it to the next one.      *)
(***************************************************************************)
Rethrow(f, e) == [f EXCEPT !.pc = "throw", !.error = e]

\* the requests sent through a proxied manager; the conditional fetch goes through
\* client.get and ChunkedUploader.start() is called on the uploader itself
Proxied(op) == op \notin {"cond", "commit", "commitV"}

\* stats && (stats.size >= CHUNKED_UPLOAD_MINIMUM); stats is {} when undefined, as
\* it is in the calls of File.synchronize, which passes none
Chunked(f) == f.stats # {} /\ \A size \in f.stats : size >= CHUNKED_UPLOAD_MINIMUM

\* Math.floor(Math.random() * 10 * (1 / retryTimes)): 0 .. ceil(10 / retryTimes) - 1
Jitters(retryTimes) ==
  IF retryTimes <= 0 THEN {0}
  ELSE 0..(((10 + retryTimes - 1) \div retryTimes) - 1)

\* determineDelayTime(retryTimes, error), in milliseconds, for the jitter drawn
determineDelayTime(retryTimes, error, jitter) == (error.hint + jitter) * 1000

retryIfAnyError(f, error, jitter) ==
  Reissue(f, f.rt - 1, f.rc, determineDelayTime(f.rt, error, jitter))

retryIfTooManyRequestsErrorUnspent(f, error, jitter) ==
  IF ~isResponseError(error) \/ error.code # 429 THEN Rethrow(f, error)
  ELSE Reissue(f, f.rt, f.rc, determineDelayTime(f.rt, error, jitter))

retryIfTooManyRequestsError(f, error, jitter) ==
  IF ~isResponseError(error) \/ error.code # 429 THEN Rethrow(f, error)
  ELSE Reissue(f, f.rt - 1, f.rc, determineDelayTime(f.rt, error, jitter))

retryIfFolderConflictErrorNoAdopt(f, error, jitter) ==
  IF ~isResponseError(error) \/ error.code # 409 \/ findConflictItem(error) # NoItem
  THEN Rethrow(f, error)
  ELSE Reissue(f, INIT_RETRY_TIMES, f.rc - 1, determineDelayTime(f.rc, error, jitter))

retryIfFolderConflictErrorOrRateLimit(f, error, jitter) ==
  IF ~isResponseError(error) \/ error.code \notin {409, 429} THEN Rethrow(f, error)
  ELSE LET item == findConflictItem(error)
       IN IF item # NoItem
          THEN [Issue(f, Req("get", item.id, "", "", 0, 0, "")) EXCEPT !.adopt = TRUE]
          ELSE Reissue(f, INIT_RETRY_TIMES, f.rc - 1, determineDelayTime(f.rc, error, jitter))

retryIfFolderConflictErrorUnspent(f, error, jitter) ==
  IF ~isResponseError(error) \/ error.code # 409 THEN Rethrow(f, error)
  ELSE LET item == findConflictItem(error)
       IN IF item # NoItem
          THEN [Issue(f, Req("get", item.id, "", "", 0, 0, "")) EXCEPT !.adopt = TRUE]
          ELSE Reissue(f, INIT_RETRY_TIMES, f.rc, determineDelayTime(f.rc, error, jitter))

\* the conflict callback of createFolder; a retry calls the proxied create afresh
retryIfFolderConflictError(f, error, jitter) ==
  IF ~isResponseError(error) \/ error.code # 409 THEN Rethrow(f, error)
  ELSE LET item == findConflictItem(error)
       IN IF item # NoItem
          THEN [Issue(f, Req("get", item.id, "", "", 0, 0, "")) EXCEPT !.adopt = TRUE]
          ELSE Reissue(f, INIT_RETRY_TIMES, f.rc - 1, determineDelayTime(f.rc, error, jitter))

makeRetriableOnceMore(f, error, jitter) ==
  IF f.rt >= 0 THEN retryIfTooManyRequestsError(f, error, jitter)
  ELSE Rethrow(f, error)

\* makeRetriable's catch for the rate-limit wrapper (retryTimes = f.rt)
makeRetriable(f, error, jitter) ==
  IF f.rt > 0 THEN retryIfTooManyRequestsError(f, error, jitter)
  ELSE Rethrow(f, error)

\* makeRetriable's catch for the conflict wrapper of createFolder (retryTimes = f.rc)
makeRetriableCreate(f, error, jitter) ==
  IF f.rc > 0 THEN retryIfFolderConflictError(f, error, jitter)
  ELSE Rethrow(f, error)

\* the catch of uploadFile around the preflight check
uploadFileCatchNothing(f, error) == Rethrow(f, error)

uploadFileCatch(f, error) ==
  IF ~isResponseError(error) \/ error.code # 409 THEN Rethrow(f, error)
  ELSE LET item == findConflictItem(error)
       IN IF item # NoItem /\ isMiniFile(item) THEN uploadNewFileVersion(f, item)
          ELSE Rethrow(f, error)

\* an error that leaves BoxFinder reaches the catch of the worker
Uncaught(f) == IF f.pc = "throw" THEN Throw(f, f.error) ELSE f

FC(f, c) == [f |-> f, c |-> c]

fetchItemWithConditionCatchAll(f, c, error) ==
  IF ~isResponseError(error) THEN Throw(f, error)
  ELSE CASE error.code = 304 ->
              AfterFindItem(f, IF IsKind(WantKind(f), f.cached) THEN f.cached ELSE NoItem, c)
         [] OTHER -> AfterFindItem(f, NoItem, c)

\* the catch of fetchItemWithCondition, then findItemByName's isItem check
fetchItemWithConditionCatch(f, c, error) ==
  IF ~isResponseError(error) THEN Throw(f, error)
  ELSE CASE error.code = 304 ->
              AfterFindItem(f, IF IsKind(WantKind(f), f.cached) THEN f.cached ELSE NoItem, c)
         [] error.code = 404 -> AfterFindItem(f, NoItem, c)
         [] OTHER -> Throw(f, error)

\* a call has answered without an error: the code up to the next await
OnSuccess(f, c) ==
  LET r == f.resp
      op == f.req.op
  IN CASE op = "list" ->
            LET c1 == cachePage(c, f.req.id, f.req.marker, r.entries)
                m == FirstMatch(r.entries, WantKind(f), WantName(f))
            IN IF m # NoItem THEN FC(AfterFindItem(f, m, c1), c1)
               ELSE IF r.next # 0
                    THEN FC(Issue(f, Req("list", f.req.id, "", "", r.next, 0, "")), c1)
                    ELSE FC(AfterFindItem(f, NoItem, c1), c1)
       [] op = "get" /\ f.stage = "open" ->
            FC(Finish([f EXCEPT !.result = r.item], "RETURNED"), c)
       [] op = "get" /\ f.phase = "open" ->
            \* BoxFinder.create has its current folder: findFolderByPath(segment)
            FC(findFolderByPath([f EXCEPT !.phase = "find", !.dirs = <<f.path[f.seg]>>,
                                         !.i = 1, !.cur = r.item], c), c)
       [] op \in {"get", "create", "cond"} /\ r.item.parent = -1 ->
            FC(Throw(f, AssertionError), c)
       [] op = "get" ->
            LET c1 == cacheItem(c, r.item)
            IN IF f.adopt
               THEN FC(createFolderByPath([f EXCEPT !.cur = r.item, !.i = @ + 1,
                                                    !.adopt = FALSE], c1), c1)
               ELSE IF f.phase = "find" THEN FC(AfterFindFolder(f, r.item, c1), c1)
               ELSE FC(AfterCreateFolderUnless(f, r.item, c1), c1)
       [] op = "create" ->
            LET c1 == cacheItem(c, r.item)
            IN FC(createFolderByPath([f EXCEPT !.cur = r.item, !.i = @ + 1], c1), c1)
       [] op = "cond" ->
            LET c1 == cacheItem(c, r.item)
            IN FC(AfterFindItem(f, IF IsKind(WantKind(f), r.item) THEN r.item ELSE NoItem, c1), c1)
       [] op = "preflight" ->
            \* this.files.getChunkedUploader(...), or this.files.uploadFile(...)
            FC(Issue(f, Req(IF Chunked(f) THEN "session" ELSE "upload",
                            f.req.id, "", f.req.name, 0, 0, cfg.localHash)), c)
       [] op = "preflightV" ->
            \* this.files.getNewVersionChunkedUploader(...), or this.files.uploadNewFileVersion(...)
            FC(Issue(f, Req(IF Chunked(f) THEN "sessionV" ELSE "uploadV",
                            f.req.id, "", f.req.name, 0, 0, cfg.localHash)), c)
       [] op = "session" ->
            \* chunkedUploader.start()
            FC(Issue(f, Req("commit", f.req.id, "", f.req.name, 0, 0, cfg.localHash)), c)
       [] op = "sessionV" ->
            FC(Issue(f, Req("commitV", f.req.id, "", f.req.name, 0, 0, cfg.localHash)), c)
       [] op \in {"upload", "commit"} -> FC(Finish(f, "UPLOADED"), cacheItems(c, r.entries))
       [] op \in {"uploadV", "commitV"} ->
            FC(Finish(f, IF f.stage = "upgrade" THEN "UPGRADED" ELSE "UPLOADED"),
               cacheItems(c, r.entries))
       [] OTHER -> FC(f, c)

\* a response has arrived: the frame and the cache at the next await
OnResponse(f, c, jitter) ==
  LET r == f.resp
      op == f.req.op
  IN IF r.code = 200 THEN OnSuccess(f, c)
     ELSE IF op = "cond" THEN FC(fetchItemWithConditionCatch(f, c, r), c)
     ELSE IF ~Proxied(op) THEN FC(Throw(f, r), c)
     ELSE LET g == makeRetriable(f, r, jitter)
          IN IF g.pc # "throw" THEN FC(g, c)
             ELSE IF op = "create" THEN FC(Uncaught(makeRetriableCreate(f, r, jitter)), c)
             ELSE IF op = "preflight" THEN FC(Uncaught(uploadFileCatch(f, r)), c)
             ELSE FC(Throw(f, r), c)

AfterDigestNoCompare(f, sha1) ==
  IF ~cfg.pretend THEN uploadNewFileVersion([f EXCEPT !.stage = "upgrade"], f.found)
  ELSE Finish(f, "UPGRADED")

\* File.synchronize once digest() has resolved with sha1
AfterDigest(f, sha1) ==
  IF sha1 = f.found.sha1 THEN Finish(f, "SYNCHRONIZED")
  ELSE IF ~cfg.pretend THEN uploadNewFileVersion([f EXCEPT !.stage = "upgrade"], f.found)
       ELSE Finish(f, "UPGRADED")

(***************************************************************************)
(* The local tree and the walker.  Paths are sequences of names; the       *)
(* exclusion test works on the characters of the absolute path.            *)
(***************************************************************************)
CharsOf(name) ==
  CASE name = "foo" -> <<"f", "o", "o">>
    [] name = "bar" -> <<"b", "a", "r">>
    [] name = "qux" -> <<"q", "u", "x">>
    [] name = "barn" -> <<"b", "a", "r", "n">>
    [] OTHER -> <<name>>

RootChars == <<"/", "s", "r", "c">>          \* the source directory, "/src"

RECURSIVE JoinChars(_)
JoinChars(path) ==
  IF path = <<>> THEN <<>>
  ELSE <<"/">> \o CharsOf(Head(path)) \o JoinChars(Tail(path))

\* path.resolve(rootPath, relativePath)
AbsolutePath(path) == RootChars \o JoinChars(path)

\* fs.readdir(root, { withFileTypes: true }) of the local tree: {foo, bar/, bar/qux/},
\* the same without foo, an empty directory, or the wider tree
\* {bar/, bar/qux/, bar/qux/foo, bar/baz, foo, zot/}, or the tree {bar/, bar/baz, barn}
ReadDir(dir) ==
  CASE cfg.tree = "nested" ->
         CASE dir = <<>> -> << [name |-> "bar", kind |-> "dir"],
                               [name |-> "barn", kind |-> "file"] >>
           [] dir = <<"bar">> -> << [name |-> "baz", kind |-> "file"] >>
           [] OTHER -> <<>>
    [] cfg.tree = "wide" ->
         CASE dir = <<>> -> << [name |-> "bar", kind |-> "dir"], [name |-> "foo", kind |-> "file"],
                               [name |-> "zot", kind |-> "dir"] >>
           [] dir = <<"bar">> -> << [name |-> "qux", kind |-> "dir"],
                                    [name |-> "baz", kind |-> "file"] >>
           [] dir = <<"bar", "qux">> -> << [name |-> "foo", kind |-> "file"] >>
           [] OTHER -> <<>>
    [] dir = <<>> /\ cfg.tree = "full" ->
         << [name |-> "bar", kind |-> "dir"], [name |-> "foo", kind |-> "file"] >>
    [] dir = <<>> /\ cfg.tree = "dirs" -> << [name |-> "bar", kind |-> "dir"] >>
    [] dir = <<"bar">> /\ cfg.tree # "empty" -> << [name |-> "qux", kind |-> "dir"] >>
    [] OTHER -> <<>>

RECURSIVE listDirectoryEntriesRecursively(_), WalkDirents(_, _)
RECURSIVE WalkDirentsUntilError(_, _), WalkDirentsByLevel(_, _)
WalkDirentsUntilError(root, dirents) ==
  IF dirents = <<>> THEN <<>>
  ELSE LET dirent == Head(dirents)
           entryPath == Append(root, dirent.name)
       IN <<[path |-> entryPath, kind |-> dirent.kind, error |-> FALSE]>>
          \o (IF dirent.kind = "dir" THEN listDirectoryEntriesRecursively(entryPath) ELSE <<>>)
          \o (IF dirent.kind = "dir" /\ entryPath \in cfg.unreadable THEN <<>>
              ELSE WalkDirentsUntilError(root, Tail(dirents)))

WalkDirentsByLevel(root, dirents) ==
  IF dirents = <<>> THEN <<>>
  ELSE LET dirent == Head(dirents)
           entryPath == Append(root, dirent.name)
       IN <<[path |-> entryPath, kind |-> dirent.kind, error |-> FALSE]>>
          \o WalkDirentsByLevel(root, Tail(dirents))
          \o (IF dirent.kind = "dir" THEN listDirectoryEntriesRecursively(entryPath) ELSE <<>>)

\* the body of the for loop, for the dirents that remain
WalkDirents(root, dirents) ==
  IF dirents = <<>> THEN <<>>
  ELSE LET dirent == Head(dirents)
           entryPath == Append(root, dirent.name)
       IN <<[path |-> entryPath, kind |-> dirent.kind, error |-> FALSE]>>
          \o (IF dirent.kind = "dir" THEN listDirectoryEntriesRecursively(entryPath) ELSE <<>>)
          \o WalkDirents(root, Tail(dirents))

listDirectoryEntriesRecursively(root) ==
  IF root \in cfg.unreadable
  THEN <<[path |-> root, kind |-> "none", error |-> TRUE]>>
  ELSE WalkDirents(root, ReadDir(root))

\* what the run works on: the entries of the traversal, or the calls made directly
Entries == IF cfg.mode = "sync" THEN listDirectoryEntriesRecursively(<<>>) ELSE cfg.calls

AccessError == Resp(-4, NoItem, <<>>, 0, 0)          \* the error of fs.readdir

ExcludedExactly(path) == \E exclude \in cfg.excludes : exclude = AbsolutePath(path)

\* excludes.some(exclude => absolutePath.startsWith(exclude))
Excluded(path) == \E exclude \in cfg.excludes : IsPrefix(exclude, AbsolutePath(path))

(***************************************************************************)
(* Tasks of the queue.                                                     *)
(***************************************************************************)
NewTask ==
  [st |-> "new", status |-> "", error |-> NoError, reports |-> 0, ncalls |-> 0,
   nmut |-> 0, found |-> NoItem, result |-> NoItem, after |-> {}, attempts |-> 0,
   n429 |-> 0, nother |-> 0, args |-> {}, last |-> NoResp, req |-> NoReq,
   creates |-> <<>>, before |-> {}]

FolderIdIgnored(given) == RootId

\* the parameter folderId = '0' of BoxFinder.create; given is {} when it is left out
FolderIdOrDefault(given) == IF given = {} THEN RootId ELSE CHOOSE id \in given : TRUE

EmptyCache == [id \in 0..MaxId |-> <<>>]

CacheOf(w) == IF cfg.shared THEN 1 ELSE w

\* the frame of the worker that enters worker(task), at its first await
Enter(t, c) ==
  LET e == Entries[t]
      f == [Idle EXCEPT !.task = t, !.path = e.path]
      n == Len(e.path)
  IN CASE e.kind = "dir" ->
            \* Entry.create: finder.findFolderByPath(relativePath)
            findFolderByPath([f EXCEPT !.stage = "resolveDir", !.phase = "find",
                                       !.dirs = e.path, !.i = 1, !.cur = Root], c)
       [] e.kind = "file" ->
            \* Entry.create: finder.findFileByPath(relativePath)
            findFolderByPath([f EXCEPT !.stage = "resolveFile", !.phase = "find",
                                       !.dirs = SubSeq(e.path, 1, n - 1), !.base = e.path[n],
                                       !.i = 1, !.cur = Root], c)
       [] e.kind = "call" -> createFolderUnlessItExists([f EXCEPT !.stage = "api"], e.path, c)
       [] e.kind = "find" ->
            \* finder.findFolderByPath(relativePath)
            findFolderByPath([f EXCEPT !.stage = "lookup", !.phase = "find",
                                       !.dirs = e.path, !.i = 1, !.cur = Root], c)
       [] e.kind = "findFile" ->
            \* finder.findFileByPath(relativePath)
            findFolderByPath([f EXCEPT !.stage = "lookupFile", !.phase = "find",
                                       !.dirs = SubSeq(e.path, 1, n - 1), !.base = e.path[n],
                                       !.i = 1, !.cur = Root], c)
       [] e.kind = "chain" ->
            \* finder.findFolderByPath(first segment), and so on from its result
            findFolderByPath([f EXCEPT !.stage = "chain", !.phase = "find",
                                       !.dirs = <<e.path[1]>>, !.i = 1, !.cur = Root,
                                       !.seg = 1], c)
       [] e.kind = "upload" ->
            \* finder.uploadFile(name, content, stats)
            uploadFile([f EXCEPT !.stage = "api", !.base = e.path[n], !.stats = e.stats], Root)
       [] e.kind = "open" ->
            \* BoxFinder.create: proxyToTrapTooManyRequests(client.folders).get(folderId)
            Issue([f EXCEPT !.stage = "open"],
                  Req("get", FolderIdOrDefault(e.folderId), "", "", 0, 0, ""))
       [] OTHER ->
            \* createFolder(name) on the finder of the run
            createFolder([f EXCEPT !.stage = "api", !.phase = "make", !.dirs = e.path,
                                   !.i = 1, !.cur = Root])

\* the switch of the worker on the status, and its catch: the error passed to done
ReportedError(f) ==
  IF f.status = "FAILURE" THEN f.error
  ELSE IF cfg.mode # "sync" THEN NoError
  ELSE IF f.status \in {"DOWNLOADED", "SYNCHRONIZED", "UPLOADED", "UPGRADED"} THEN NoError
  ELSE UnknownStatusError

CompletedSilently(task, f) ==
  [task EXCEPT !.st = "done", !.status = f.status, !.error = ReportedError(f),
               !.ncalls = f.ncalls, !.nmut = f.nmut,
               !.found = f.found, !.result = f.result, !.attempts = f.attempts,
               !.n429 = f.n429, !.nother = f.nother, !.args = f.args, !.last = f.last,
               !.req = f.req, !.creates = f.creates]

\* the task's record once the worker has called done
Completed(task, f) ==
  [task EXCEPT !.st = "done", !.status = f.status, !.error = ReportedError(f),
               !.reports = @ + 1, !.ncalls = f.ncalls, !.nmut = f.nmut,
               !.found = f.found, !.result = f.result, !.attempts = f.attempts,
               !.n429 = f.n429, !.nother = f.nother, !.args = f.args, !.last = f.last,
               !.req = f.req, !.creates = f.creates]

\* q.drain() without a handler is a promise for the next 'drain' event, and the
\* queue emits 'drain' in the callback of a task that leaves it idle: main goes
\* on past its await if it is waiting there, else the event has no listener
AfterDone(q, p) ==
  IF main = "draining" /\ q = <<>> /\ \A w \in Workers : p[w].pc = "idle"
  THEN "completed"
  ELSE main

\* the worker goes on to its next await, or ends the task and is free again
Settle(w, f, ts, q) ==
  IF f.pc = "fin"
  THEN /\ proc' = [proc EXCEPT ![w] = Idle]
       /\ tasks' = [ts EXCEPT ![f.task] = Completed(ts[f.task], f)]
       /\ main' = AfterDone(q, [proc EXCEPT ![w] = Idle])
  ELSE /\ proc' = [proc EXCEPT ![w] = f]
       /\ tasks' = ts
       /\ main' = main

(***************************************************************************)
(* Actions.                                                                *)
(***************************************************************************)
\* after its last entry the walker still awaits a readdir: that entry is a directory
ReadsOn == Entries # <<>> /\ Entries[Len(Entries)].kind = "dir"

\* main: for await (const entry of listDirectoryEntriesRecursively(rootPath)) q.push(...)
Push ==
  /\ walked < Len(Entries)
  /\ walked' = walked + 1
  /\ queue' = Append(queue, walked + 1)
  /\ tasks' = [tasks EXCEPT ![walked + 1].st = "queued"]
  /\ main' = IF main = "walking" /\ walked + 1 = Len(Entries) /\ ~ReadsOn
             THEN "draining"       \* the generator ends in this turn: await q.drain()
             ELSE main
  /\ UNCHANGED <<remote, nextId, cache, proc, prev, run, cfg, faultsLeft>>

\* main reaches await q.drain() in a turn of its own, after the last readdir
AwaitDrain ==
  /\ main = "walking"
  /\ walked = Len(Entries)
  /\ main' = "draining"
  /\ UNCHANGED <<remote, nextId, cache, proc, queue, walked, tasks, prev, run, cfg, faultsLeft>>

\* the remote as a call made directly finds it (kept for the calls only)
RemoteSeen == IF cfg.mode = "sync" THEN {} ELSE remote

TakeUnchecked(w) ==
  /\ proc[w].pc = "idle"
  /\ queue # <<>>
  /\ LET t == Head(queue)
         e == Entries[t]
         started == [tasks EXCEPT ![t].st = "running",
                                  ![t].after = {u \in DOMAIN tasks : tasks[u].st = "done"},
                                  ![t].before = RemoteSeen]
     IN /\ queue' = Tail(queue)
        /\ IF Excluded(e.path)
           THEN /\ tasks' = [started EXCEPT ![t].st = "done", ![t].status = "EXCLUDED",
                                            ![t].reports = @ + 1]
                /\ proc' = proc
                /\ main' = AfterDone(Tail(queue), proc)
           ELSE Settle(w, Enter(t, cache[CacheOf(w)]), started, Tail(queue))
  /\ UNCHANGED <<remote, nextId, cache, walked, prev, run, cfg, faultsLeft>>

TakeWhileBusy(w) ==
  /\ queue # <<>>
  /\ LET t == Head(queue)
         e == Entries[t]
         started == [tasks EXCEPT ![t].st = "running",
                                  ![t].after = {u \in DOMAIN tasks : tasks[u].st = "done"},
                                  ![t].before = RemoteSeen]
     IN /\ queue' = Tail(queue)
        /\ IF e.error
           THEN /\ tasks' = [started EXCEPT ![t].st = "done", ![t].status = "DENIED",
                                            ![t].error = AccessError, ![t].reports = @ + 1]
                /\ proc' = proc
                /\ main' = AfterDone(Tail(queue), proc)
           ELSE IF Excluded(e.path)
           THEN /\ tasks' = [started EXCEPT ![t].st = "done", ![t].status = "EXCLUDED",
                                            ![t].reports = @ + 1]
                /\ proc' = proc
                /\ main' = AfterDone(Tail(queue), proc)
           ELSE Settle(w, Enter(t, cache[CacheOf(w)]), started, Tail(queue))
  /\ UNCHANGED <<remote, nextId, cache, walked, prev, run, cfg, faultsLeft>>

\* async.queue hands the next task to a free worker: worker(task, done) up to its first await
Take(w) ==
  /\ proc[w].pc = "idle"
  /\ queue # <<>>
  /\ LET t == Head(queue)
         e == Entries[t]
         started == [tasks EXCEPT ![t].st = "running",
                                  ![t].after = {u \in DOMAIN tasks : tasks[u].st = "done"},
                                  ![t].before = RemoteSeen]
     IN /\ queue' = Tail(queue)
        /\ IF e.error
           THEN \* return done(error)
                /\ tasks' = [started EXCEPT ![t].st = "done", ![t].status = "DENIED",
                                            ![t].error = AccessError, ![t].reports = @ + 1]
                /\ proc' = proc
                /\ main' = AfterDone(Tail(queue), proc)
           ELSE IF Excluded(e.path)
           THEN \* return done()
                /\ tasks' = [started EXCEPT ![t].st = "done", ![t].status = "EXCLUDED",
                                            ![t].reports = @ + 1]
                /\ proc' = proc
                /\ main' = AfterDone(Tail(queue), proc)
           ELSE Settle(w, Enter(t, cache[CacheOf(w)]), started, Tail(queue))
  /\ UNCHANGED <<remote, nextId, cache, walked, prev, run, cfg, faultsLeft>>

\* what the remote's answer adds to the history of the call
Served(f, r) ==
  [f EXCEPT !.pc = "resp", !.resp = r, !.delay = 0, !.last = r,
            !.ncalls = @ + 1, !.attempts = @ + 1, !.args = @ \cup {f.req},
            !.nmut = @ + (IF IsMutation(f.req) THEN 1 ELSE 0),
            !.creates = IF f.req.op = "create"
                        THEN Append(@, [parent |-> f.req.id, name |-> f.req.name])
                        ELSE @,
            !.n429 = @ + (IF r.code = 429 THEN 1 ELSE 0),
            !.nother = @ + (IF r.code \in {409, 500} /\ r.item = NoItem THEN 1 ELSE 0)]

\* the remote serves the request of worker w
ServeOk(w) ==
  /\ proc[w].pc = "call"
  /\ LET a == Answer(remote, nextId, proc[w].req)
     IN /\ remote' = a.store
        /\ nextId' = a.nid
        /\ proc' = [proc EXCEPT ![w] = Served(proc[w], a.resp)]
  /\ UNCHANGED <<cache, queue, walked, tasks, prev, run, cfg, faultsLeft, main>>

\* the remote fails the request of worker w: rate limit, server error, bare conflict
ServeFault(w) ==
  /\ proc[w].pc = "call"
  /\ faultsLeft > 0
  /\ \E code \in cfg.faults, hint \in cfg.hints :
       /\ code = 409 => proc[w].req.op = "create"
       /\ code # 429 => hint = 0
       /\ proc' = [proc EXCEPT ![w] = Served(proc[w], Resp(code, NoItem, <<>>, 0, hint))]
  /\ faultsLeft' = faultsLeft - 1
  /\ UNCHANGED <<remote, nextId, cache, queue, walked, tasks, prev, run, cfg, main>>

\* the remote answers a preflight check with a conflict that names no item
ServeConflict(w) ==
  /\ proc[w].pc = "call"
  /\ proc[w].req.op = "preflight"
  /\ faultsLeft > 0
  /\ proc' = [proc EXCEPT ![w] = Served(proc[w], Resp(409, NoItem, <<>>, 0, 0))]
  /\ faultsLeft' = faultsLeft - 1
  /\ UNCHANGED <<remote, nextId, cache, queue, walked, tasks, prev, run, cfg, main>>

\* the retry count that scales the jitter of the sleep, if the response leads to one
SleepRetryTimes(f) ==
  IF ~Proxied(f.req.op) THEN 0
  ELSE IF f.resp.code = 429 THEN f.rt
  ELSE IF f.req.op = "create" /\ f.resp.code = 409 /\ f.resp.item = NoItem THEN f.rc
  ELSE 0

\* the response reaches worker w, which runs to its next await or to done
Continue(w) ==
  /\ proc[w].pc = "resp"
  /\ \E jitter \in Jitters(SleepRetryTimes(proc[w])) :
       LET k == CacheOf(w)
           n == OnResponse(proc[w], cache[k], jitter)
       IN /\ cache' = [cache EXCEPT ![k] = n.c]
          /\ Settle(w, n.f, tasks, queue)
  /\ UNCHANGED <<remote, nextId, queue, walked, prev, run, cfg, faultsLeft>>

\* File.digest resolves with the SHA-1 of the local content
DigestOk(w) ==
  /\ proc[w].pc = "digest"
  /\ Settle(w, AfterDigest(proc[w], cfg.localHash), tasks, queue)
  /\ UNCHANGED <<remote, nextId, cache, queue, walked, prev, run, cfg, faultsLeft>>

\* File.digest rejects: the read stream emits 'error'
DigestFail(w) ==
  /\ proc[w].pc = "digest"
  /\ faultsLeft > 0
  /\ faultsLeft' = faultsLeft - 1
  /\ Settle(w, Throw(proc[w], DigestError), tasks, queue)
  /\ UNCHANGED <<remote, nextId, cache, queue, walked, prev, run, cfg>>

RunComplete ==
  /\ walked = Len(Entries)
  /\ \A t \in DOMAIN tasks : tasks[t].st = "done"

\* the command is run again on the same tree: a new process, so a new cache
Rerun ==
  /\ cfg.mode = "sync"
  /\ run < cfg.runs
  /\ RunComplete
  /\ run' = run + 1
  /\ prev' = tasks
  /\ tasks' = [t \in DOMAIN tasks |-> NewTask]
  /\ walked' = 0
  /\ queue' = <<>>
  /\ cache' = [k \in Workers |-> EmptyCache]
  /\ main' = "walking"
  /\ UNCHANGED <<remote, nextId, proc, cfg, faultsLeft>>

(***************************************************************************)
(* Spec: synchronization runs of the tree {foo, bar/, bar/qux/}.           *)
(***************************************************************************)
ExcludeBar == RootChars \o <<"/", "b", "a", "r">>     \* --exclude bar

RemoteBefore == {NewFolder(1, RootId, "bar"), NewFile(2, RootId, "foo", "H2")}

InitCommon ==
  /\ cache = [k \in Workers |-> EmptyCache]
  /\ proc = [w \in Workers |-> Idle]
  /\ queue = <<>>
  /\ walked = 0
  /\ tasks = [t \in 1..Len(Entries) |-> NewTask]
  /\ prev = tasks
  /\ run = 1
  /\ main = IF cfg.mode = "sync" THEN "walking" ELSE "caller"

\* a run of the command: its options, the local content and the remote it meets
Scenario(pretend, disableValidation, excludes, unreadable, localHash, emptyRemote, runs, faulty) ==
  [mode |-> "sync", pretend |-> pretend, disableValidation |-> disableValidation,
   excludes |-> excludes, unreadable |-> unreadable, localHash |-> localHash,
   emptyRemote |-> emptyRemote, runs |-> runs, faulty |-> faulty, shared |-> TRUE,
   faults |-> {429, 500, 409}, hints |-> {0}, calls |-> <<>>, tree |-> "full"]

\* the same run on another local tree
On(tree, scenario) == [scenario EXCEPT !.tree = tree]

Scenarios ==
  { Scenario(FALSE, FALSE, {}, {}, "H1", TRUE, MaxRuns, FALSE),
    Scenario(FALSE, TRUE, {}, {}, "H1", TRUE, 1, FALSE),
    Scenario(TRUE, FALSE, {}, {}, "H1", TRUE, 1, FALSE),
    Scenario(FALSE, FALSE, {}, {}, "H1", TRUE, 1, TRUE),
    Scenario(FALSE, FALSE, {}, {}, "H1", FALSE, 1, TRUE),
    Scenario(TRUE, FALSE, {}, {}, "H1", FALSE, 1, FALSE),
    Scenario(FALSE, FALSE, {}, {}, "H2", FALSE, 1, FALSE),
    Scenario(FALSE, FALSE, {ExcludeBar}, {}, "H1", TRUE, 1, FALSE),
    Scenario(TRUE, FALSE, {ExcludeBar}, {}, "H1", FALSE, 1, FALSE),
    Scenario(FALSE, FALSE, {}, {<<"bar", "qux">>}, "H1", TRUE, 1, FALSE),
    On("dirs", Scenario(FALSE, FALSE, {ExcludeBar}, {}, "H1", TRUE, 1, FALSE)),
    On("dirs", Scenario(FALSE, FALSE, {}, {}, "H1", FALSE, 1, FALSE)),
    On("nested", Scenario(FALSE, FALSE, {}, {}, "H1", TRUE, 1, FALSE)),
    On("nested", Scenario(FALSE, FALSE, {ExcludeBar}, {}, "H1", TRUE, 1, FALSE)),
    On("empty", Scenario(FALSE, FALSE, {}, {}, "H1", TRUE, 1, FALSE)) }

InitRemote ==
  /\ remote = IF cfg.emptyRemote THEN {} ELSE RemoteBefore
  /\ nextId = IF cfg.emptyRemote THEN 1 ELSE 3

Init ==
  /\ cfg \in Scenarios
  /\ InitRemote
  /\ faultsLeft = IF cfg.faulty THEN MaxFaults ELSE 0
  /\ InitCommon

\* the steps of one run
NextRun ==
  \/ Push
  \/ AwaitDrain
  \/ \E w \in Workers :
       \/ Take(w)
       \/ ServeOk(w)
       \/ ServeFault(w)
       \/ Continue(w)
       \/ DigestOk(w)
       \/ DigestFail(w)

Next == NextRun \/ Rerun

Spec == Init /\ [][Next]_vars

\* SpecLive: one run in which the event loop runs what is ready and the remote
\* answers every request, with failures, an excluded and an unreadable directory
LiveScenarios ==
  { Scenario(FALSE, FALSE, {}, {}, "H1", TRUE, 1, TRUE),
    Scenario(FALSE, FALSE, {}, {}, "H1", FALSE, 1, TRUE),
    Scenario(FALSE, FALSE, {ExcludeBar}, {}, "H1", TRUE, 1, FALSE),
    Scenario(FALSE, FALSE, {}, {<<"bar", "qux">>}, "H1", TRUE, 1, FALSE),
    On("dirs", Scenario(FALSE, FALSE, {ExcludeBar}, {}, "H1", TRUE, 1, FALSE)),
    On("empty", Scenario(FALSE, FALSE, {}, {}, "H1", TRUE, 1, FALSE)) }

InitLive ==
  /\ cfg \in LiveScenarios
  /\ InitRemote
  /\ faultsLeft = IF cfg.faulty THEN MaxFaults ELSE 0
  /\ InitCommon

SpecLive == InitLive /\ [][NextRun]_vars /\ WF_vars(NextRun)

(***************************************************************************)
(* SpecCreate: createFolderUnlessItExists called directly, by callers that *)
(* run concurrently on one finder (a shared cache) or on finders of their  *)
(* own.                                                                    *)
(***************************************************************************)
Call(kind, path) == [path |-> path, kind |-> kind, error |-> FALSE, folderId |-> {}]

CallPaths == {<<"bar">>, <<"bar", "qux">>}

Calls(calls, shared, disableValidation, emptyRemote, faults, hints) ==
  [mode : {"api"}, pretend : {FALSE}, disableValidation : disableValidation,
   excludes : {{}}, unreadable : {{}}, localHash : {"H1"}, emptyRemote : emptyRemote,
   runs : {1}, faulty : {faults # {}}, shared : shared, faults : {faults}, hints : {hints},
   calls : calls, tree : {"full"}]

InitCreate ==
  /\ cfg \in Calls({<<Call("call", p), Call("call", q), Call("call", p)>> :
                      p \in CallPaths, q \in CallPaths},
                   BOOLEAN, BOOLEAN, BOOLEAN, {}, {0})
  /\ InitRemote
  /\ faultsLeft = 0
  /\ InitCommon

NextCreate ==
  \/ Push
  \/ \E w \in Workers :
       \/ Take(w)
       \/ ServeOk(w)
       \/ Continue(w)

SpecCreate == InitCreate /\ [][NextCreate]_vars

(***************************************************************************)
(* SpecRetry: one proxied call (the get of BoxFinder.create) and one       *)
(* createFolder, against a remote that fails up to RetryFaults requests.   *)
(***************************************************************************)
InitRetry ==
  /\ cfg \in Calls({<<Call("open", <<>>), Call("mk", <<"bar">>)>>},
                   {TRUE}, {FALSE}, BOOLEAN, {429, 500, 409}, {0, 1})
  /\ InitRemote
  /\ faultsLeft = RetryFaults
  /\ InitCommon

NextRetry ==
  \/ Push
  \/ \E w \in Workers :
       \/ Take(w)
       \/ ServeOk(w)
       \/ ServeFault(w)
       \/ Continue(w)

SpecRetry == InitRetry /\ [][NextRetry]_vars

(***************************************************************************)
(* SpecFind: findFolderByPath and findFileByPath called directly, on one   *)
(* finder, against a remote that may fail one request.                     *)
(***************************************************************************)
RemoteDeep ==
  { NewFolder(1, RootId, "bar_nfc"), NewFile(2, RootId, "foo", "H2"),
    NewFolder(3, 1, "qux"), NewFolder(4, 3, "zot"), NewFile(5, 1, "foo_nfc", "H1") }

Lookups ==
  { Call("find", <<"bar_nfd", "qux", "zot">>), Call("chain", <<"bar_nfd", "qux", "zot">>),
    Call("findFile", <<"bar_nfd", "foo_nfd">>), Call("find", <<"foo">>),
    Call("findFile", <<"nope", "foo">>), Call("find", <<"bar_nfc", "nope">>),
    Call("findFile", <<"bar_nfc">>), Call("find", <<"bar">>) }

InitFind ==
  /\ cfg \in Calls({<<a, b, a>> : a \in Lookups, b \in Lookups},
                   {TRUE}, BOOLEAN, {FALSE}, {429, 500}, {0})
  /\ remote = RemoteDeep
  /\ nextId = 6
  /\ faultsLeft = IF cfg.calls[1] = cfg.calls[2] /\ cfg.calls[1].kind = "findFile"
                  THEN MaxFaults ELSE 0
  /\ InitCommon

NextFind ==
  \/ Push
  \/ \E w \in Workers :
       \/ Take(w)
       \/ ServeOk(w)
       \/ ServeFault(w)
       \/ Continue(w)

SpecFind == InitFind /\ [][NextFind]_vars

(***************************************************************************)
(* SpecWalk: the traversal alone, of each local tree with each set of its  *)
(* directories unreadable; main pushes what the walker yields.             *)
(***************************************************************************)
Directories == {<<>>, <<"bar">>, <<"bar", "qux">>, <<"zot">>}

InitWalk ==
  /\ cfg \in {[On(tree, Scenario(FALSE, FALSE, {}, {}, "H1", TRUE, 1, FALSE))
                 EXCEPT !.unreadable = denied] :
                tree \in {"full", "dirs", "empty", "wide"}, denied \in SUBSET Directories}
  /\ InitRemote
  /\ faultsLeft = 0
  /\ InitCommon

NextWalk == Push \/ AwaitDrain

SpecWalk == InitWalk /\ [][NextWalk]_vars

(***************************************************************************)
(* SpecOpen: BoxFinder.create called twice, without a folder id, with the  *)
(* id of a folder, of a file and of nothing, against a remote that fails   *)
(* up to RetryFaults requests.                                             *)
(***************************************************************************)
Open(given) == [Call("open", <<>>) EXCEPT !.folderId = given]

InitOpen ==
  /\ cfg \in Calls({<<Open(a), Open(b)>> : a \in {{}, {1}}, b \in {{1}, {2}, {MaxId}}},
                   {TRUE}, {FALSE}, {FALSE}, {429, 500}, {0})
  /\ InitRemote
  /\ faultsLeft = RetryFaults
  /\ InitCommon

NextOpen ==
  \/ Push
  \/ \E w \in Workers :
       \/ Take(w)
       \/ ServeOk(w)
       \/ ServeFault(w)
       \/ Continue(w)

SpecOpen == InitOpen /\ [][NextOpen]_vars

(***************************************************************************)
(* SpecDelay: one proxied call against a remote that answers 429 with a    *)
(* retry-after header of -2, 0 (or none) or 2 seconds.                     *)
(***************************************************************************)
InitDelay ==
  /\ cfg \in Calls({<<Call("open", <<>>)>>}, {TRUE}, {FALSE}, {FALSE}, {429}, {-2, 0, 2})
  /\ InitRemote
  /\ faultsLeft = RetryFaults
  /\ InitCommon

NextDelay ==
  \/ Push
  \/ \E w \in Workers :
       \/ Take(w)
       \/ ServeOk(w)
       \/ ServeFault(w)
       \/ Continue(w)

SpecDelay == InitDelay /\ [][NextDelay]_vars

(***************************************************************************)
(* SpecUpload: uploadFile called directly for one name by callers that run *)
(* concurrently on one finder, without stats, below and at the threshold   *)
(* of the chunked upload.                                                  *)
(***************************************************************************)
Upload(path, stats) == [path |-> path, kind |-> "upload", error |-> FALSE, stats |-> stats]

StatsGiven == {{}, {CHUNKED_UPLOAD_MINIMUM - 1}, {CHUNKED_UPLOAD_MINIMUM}}

InitUpload ==
  /\ cfg \in Calls({<<Upload(<<"foo">>, s), Upload(<<"foo">>, t)>> :
                      s \in StatsGiven, t \in StatsGiven},
                   {TRUE}, {FALSE}, BOOLEAN, {429, 500}, {0})
  /\ InitRemote
  /\ faultsLeft = MaxFaults
  /\ InitCommon

NextUpload ==
  \/ Push
  \/ \E w \in Workers :
       \/ Take(w)
       \/ ServeOk(w)
       \/ ServeFault(w)
       \/ ServeConflict(w)
       \/ Continue(w)

SpecUpload == InitUpload /\ [][NextUpload]_vars

(***************************************************************************)
(* SpecStale: the same lookup three times on one finder, with revalidation,*)
(* while another user of the remote deletes entities.                      *)
(***************************************************************************)
\* an entity is deleted in the remote by someone else
Vanish ==
  /\ \E x \in remote : remote' = remote \ {x}
  /\ UNCHANGED <<nextId, cache, proc, queue, walked, tasks, prev, run, cfg, faultsLeft, main>>

InitStale ==
  /\ cfg \in Calls({<<a, a, a>> : a \in {Call("findFile", <<"foo">>), Call("find", <<"bar">>)}},
                   {TRUE}, {FALSE}, {FALSE}, {}, {0})
  /\ InitRemote
  /\ faultsLeft = 0
  /\ InitCommon

NextStale ==
  \/ Push
  \/ Vanish
  \/ \E w \in Workers :
       \/ Take(w)
       \/ ServeOk(w)
       \/ Continue(w)

SpecStale == InitStale /\ [][NextStale]_vars

(***************************************************************************)
(* SpecCache: cacheItem applied to entities as get, create and upload      *)
(* answer them, one after the other, on a cache that is empty or holds the *)
(* page of a listing.                                                      *)
(***************************************************************************)
Version(item, etag) == [item EXCEPT !.etag = etag]

\* a folder and a file of one id, another folder, in two versions each, and a
\* file of another parent
CacheInputs ==
  { Version(it, e) : it \in { NewFolder(1, RootId, "bar"), NewFile(1, RootId, "foo", "H1"),
                              NewFolder(2, RootId, "qux") },
                     e \in {0, 1} }
    \cup { NewFile(2, 1, "foo", "H2") }

ListedBefore == << Mini(NewFolder(1, RootId, "bar")), Mini(NewFile(2, RootId, "zot", "H1")) >>

RECURSIVE SeqsUpTo(_, _)
SeqsUpTo(S, n) ==
  IF n = 0 THEN {<<>>}
  ELSE LET shorter == SeqsUpTo(S, n - 1)
       IN shorter \cup {Append(q, x) : q \in shorter, x \in S}

InitCache ==
  /\ cfg \in Calls({<<>>}, {TRUE}, {FALSE}, {FALSE}, {}, {0})
  /\ remote = {}
  /\ nextId = 1
  /\ faultsLeft = 0
  /\ \E listed \in {<<>>, ListedBefore} :
       cache = [k \in Workers |-> [EmptyCache EXCEPT ![RootId] = listed]]
  /\ \E entries \in SeqsUpTo(CacheInputs, MaxMerge) :
       proc = [w \in Workers |->
                 IF w = 1
                 THEN [Idle EXCEPT !.pc = "caching", !.resp = Resp(200, NoItem, entries, 0, 0)]
                 ELSE Idle]
  /\ queue = <<>>
  /\ walked = 0
  /\ tasks = <<>>
  /\ prev = tasks
  /\ run = 1
  /\ main = "caller"

\* newItems.entries.forEach(cacheItem(cache)), one entity at a time
CacheNext(w) ==
  /\ proc[w].pc = "caching"
  /\ proc[w].resp.entries # <<>>
  /\ cache' = [cache EXCEPT ![CacheOf(w)] = cacheItem(@, Head(proc[w].resp.entries))]
  /\ proc' = [proc EXCEPT ![w].resp.entries = Tail(@), ![w].resp.item = Head(proc[w].resp.entries),
                          ![w].i = @ + 1]
  /\ UNCHANGED <<remote, nextId, queue, walked, tasks, prev, run, cfg, faultsLeft, main>>

NextCache == \E w \in Workers : CacheNext(w)

SpecCache == InitCache /\ [][NextCache]_vars

(***************************************************************************)
(* Properties.                                                             *)
(***************************************************************************)
Done(t) == t \in DOMAIN tasks /\ tasks[t].st = "done"

PathOf(t) == Entries[t].path

FoldersNamed(parentId, name) == Named(remote, parentId, "folder", name)

\* C1: calls of createFolderUnlessItExists for the same path, concurrent or not, all
\* return the same folder, the one folder of that name under its parent: the call
\* whose create is answered 409 adopts the folder the conflict names, and none fails.
C1_SameFolder ==
  \A t, u \in DOMAIN tasks :
    (Done(t) /\ Done(u) /\ PathOf(t) = PathOf(u)) =>
      /\ tasks[t].status = "RETURNED"
      /\ tasks[u].status = "RETURNED"
      /\ tasks[t].result.id = tasks[u].result.id
      /\ tasks[t].result \in remote
      /\ tasks[t].result.name = PathOf(t)[Len(PathOf(t))]
      /\ Cardinality(FoldersNamed(tasks[t].result.parent, tasks[t].result.name)) = 1

\* two overlapping calls for "bar" have both sent a create, and one folder came of it
C1_Witness ==
  \E t, u \in DOMAIN tasks :
    /\ t # u /\ Done(t) /\ Done(u)
    /\ PathOf(t) = <<"bar">> /\ PathOf(u) = <<"bar">>
    /\ t \notin tasks[u].after /\ u \notin tasks[t].after
    /\ tasks[t].nmut >= 1 /\ tasks[u].nmut >= 1
    /\ tasks[t].result.id = tasks[u].result.id
    /\ tasks[t].result \in remote

\* C2: a call of createFolderUnlessItExists that starts after a call for the same path
\* has returned gets the same folder and sends no create request.
C2_Idempotent ==
  \A t, u \in DOMAIN tasks :
    (Done(t) /\ Done(u) /\ PathOf(t) = PathOf(u) /\ t \in tasks[u].after
       /\ tasks[t].status = "RETURNED") =>
      /\ tasks[u].status = "RETURNED"
      /\ tasks[u].result.id = tasks[t].result.id
      /\ tasks[u].nmut = 0

\* the first call has created the folder and a later call for the path has returned
C2_Witness ==
  \E t, u \in DOMAIN tasks :
    /\ Done(t) /\ Done(u) /\ PathOf(t) = PathOf(u) /\ t \in tasks[u].after
    /\ tasks[t].nmut >= 1
    /\ tasks[u].status = "RETURNED" /\ tasks[u].nmut = 0

\* C3: a proxied call answered 429 k times and nothing else that fails is sent k + 1
\* times with the same arguments and returns the success, for k up to the budget
\* INIT_RETRY_TIMES; answered 429 once more, it throws that last 429 as it came.
C3_RetryBudget ==
  \A t \in DOMAIN tasks :
    (Done(t) /\ tasks[t].nother = 0) =>
      /\ Cardinality(tasks[t].args) = 1
      /\ tasks[t].attempts = tasks[t].n429 + (IF tasks[t].last.code = 429 THEN 0 ELSE 1)
      /\ IF tasks[t].n429 <= INIT_RETRY_TIMES
         THEN tasks[t].status = "RETURNED" /\ tasks[t].last.code = 200
         ELSE /\ tasks[t].status = "FAILURE"
              /\ tasks[t].n429 = INIT_RETRY_TIMES + 1
              /\ tasks[t].attempts = INIT_RETRY_TIMES + 1
              /\ tasks[t].error = tasks[t].last
              /\ tasks[t].error.code = 429

\* one call has used up the budget and thrown the 429, another was retried and returned
C3_Witness ==
  \E t, u \in DOMAIN tasks :
    /\ Done(t) /\ tasks[t].n429 = INIT_RETRY_TIMES + 1 /\ tasks[t].status = "FAILURE"
    /\ tasks[t].error.code = 429
    /\ Done(u) /\ tasks[u].n429 = 1 /\ tasks[u].nother = 0 /\ tasks[u].status = "RETURNED"

(***************************************************************************)
(* Properties of a synchronization run.                                    *)
(***************************************************************************)
KindOf(t) == Entries[t].kind

Outcomes == {"SYNCHRONIZED", "CREATED", "UPLOADED", "UPGRADED"}

\* the status of the entry at path in the task records ts ("": the tree has no such entry)
StatusAt(ts, path) ==
  LET at == {u \in DOMAIN ts : Entries[u].path = path /\ ~Entries[u].error}
  IN IF at = {} THEN "" ELSE ts[CHOOSE u \in at : TRUE].status

\* the id of the remote folder at path under parentId, or -1
RECURSIVE Resolve(_, _, _)
Resolve(store, parentId, path) ==
  IF path = <<>> THEN parentId
  ELSE LET m == Named(store, parentId, "folder", Head(path))
       IN IF m = {} THEN -1
          ELSE Resolve(store, (CHOOSE x \in m : TRUE).id, Tail(path))

\* what synchronize answers for what Entry.create has resolved
Expected(t) ==
  LET found == tasks[t].found
  IN IF KindOf(t) = "dir"
     THEN IF found # NoItem THEN "SYNCHRONIZED" ELSE "CREATED"
     ELSE IF found = NoItem THEN "UPLOADED"
          ELSE IF cfg.localHash = found.sha1 THEN "SYNCHRONIZED" ELSE "UPGRADED"

\* the tree {foo, bar/, bar/qux/}, an empty remote root, pretend = false, no failure
C4Case ==
  /\ cfg.mode = "sync" /\ ~cfg.pretend /\ cfg.emptyRemote /\ ~cfg.faulty
  /\ cfg.excludes = {} /\ cfg.unreadable = {} /\ cfg.tree = "full"

AllSynchronized(ts) ==
  /\ StatusAt(ts, <<"foo">>) = "SYNCHRONIZED"
  /\ StatusAt(ts, <<"bar">>) = "SYNCHRONIZED"
  /\ StatusAt(ts, <<"bar", "qux">>) = "SYNCHRONIZED"

OneReport ==
  \A t \in DOMAIN tasks :
    /\ tasks[t].reports = (IF tasks[t].st = "done" THEN 1 ELSE 0)
    /\ Cardinality({w \in Workers : proc[w].task = t}) =
         (IF tasks[t].st = "running" THEN 1 ELSE 0)
    /\ Cardinality({k \in 1..Len(queue) : queue[k] = t}) =
         (IF tasks[t].st = "queued" THEN 1 ELSE 0)
    /\ tasks[t].st = "new" <=> t > walked
    /\ tasks[t].st = "done" =>
         tasks[t].status \in Outcomes \cup {"DENIED", "EXCLUDED", "FAILURE", "RETURNED"}

\* C5: every task pushed into the queue is taken by exactly one worker and ends in
\* exactly one report, never two (OneReport) and never none (the run ends with every
\* entry pushed and every task reported), whichever branch it takes.
C5_ExactlyOneReport ==
  /\ []OneReport
  /\ <>[](RunComplete /\ \A t \in DOMAIN tasks : tasks[t].reports = 1)

\* a run is over with a denied, a created and an uploaded entry, each reported once
C5_Witness ==
  /\ RunComplete
  /\ \E t \in DOMAIN tasks : tasks[t].status = "DENIED" /\ tasks[t].reports = 1
  /\ \E t \in DOMAIN tasks : tasks[t].status = "UPLOADED" /\ tasks[t].reports = 1
  /\ \A t \in DOMAIN tasks : tasks[t].reports = 1

\* the error a failed task is reported with is the one that was raised
CarriesError ==
  \A t \in DOMAIN tasks :
    (tasks[t].st = "done" /\ tasks[t].status = "FAILURE") =>
      /\ tasks[t].error # NoError
      /\ isResponseError(tasks[t].error) => tasks[t].error = tasks[t].last
      /\ ~isResponseError(tasks[t].error) => tasks[t].error \in {DigestError, AssertionError}

SomeFailure == \E t \in DOMAIN tasks : tasks[t].status = "FAILURE"

\* C6: a task whose processing raises an error is reported as a failure that carries
\* that error, and the run goes on: every task still gets done.
C6_FailureIsLocal ==
  /\ []CarriesError
  /\ SomeFailure ~> RunComplete

\* one task has failed on a server error and the others have ended with their outcomes
C6_Witness ==
  /\ RunComplete
  /\ \E t \in DOMAIN tasks : tasks[t].status = "FAILURE" /\ tasks[t].error.code = 500
  /\ \E t \in DOMAIN tasks : tasks[t].status \in Outcomes

\* C7: with pretend = true no create, upload or new-version request is sent and the
\* remote stays as it was, and the outcome of an entry, pretend or not, is the one
\* that follows from what its path resolved to.
C7_Pretend ==
  /\ cfg.pretend =>
       /\ remote = (IF cfg.emptyRemote THEN {} ELSE RemoteBefore)
       /\ \A w \in Workers : ~IsMutation(proc[w].req) /\ proc[w].nmut = 0
       /\ \A t \in DOMAIN tasks : tasks[t].nmut = 0
  /\ \A t \in DOMAIN tasks :
       (cfg.mode = "sync" /\ tasks[t].st = "done" /\ tasks[t].status \in Outcomes) =>
         tasks[t].status = Expected(t)

\* a pretended run is over: bar/qux would be created and foo upgraded
C7_Witness ==
  /\ cfg.pretend /\ RunComplete
  /\ StatusAt(tasks, <<"bar", "qux">>) = "CREATED"
  /\ StatusAt(tasks, <<"foo">>) = "UPGRADED"
  /\ remote = RemoteBefore

\* C8: an accessible entry whose absolute path starts with an exclude prefix is
\* reported EXCLUDED and no remote call is made for it.
C8_Excluded ==
  /\ \A t \in DOMAIN tasks :
       (cfg.mode = "sync" /\ tasks[t].st = "done" /\ ~Entries[t].error
          /\ \E x \in cfg.excludes : IsPrefix(x, AbsolutePath(PathOf(t)))) =>
         tasks[t].status = "EXCLUDED" /\ tasks[t].ncalls = 0 /\ tasks[t].error = NoError
  /\ \A w \in Workers :
       (cfg.mode = "sync" /\ proc[w].pc # "idle") =>
         ~\E x \in cfg.excludes : IsPrefix(x, AbsolutePath(proc[w].path))

\* bar is excluded: bar and bar/qux are reported EXCLUDED, foo is uploaded
C8_Witness ==
  /\ cfg.excludes = {ExcludeBar} /\ RunComplete /\ ~cfg.pretend
  /\ StatusAt(tasks, <<"bar">>) = "EXCLUDED"
  /\ StatusAt(tasks, <<"bar", "qux">>) = "EXCLUDED"
  /\ StatusAt(tasks, <<"foo">>) = "UPLOADED"

\* C9: a directory whose path resolves to a remote folder is SYNCHRONIZED without a
\* mutating call; one whose path does not resolve is CREATED, and unless pretend the
\* folder and its ancestors exist remotely once that is reported.
C9_Directory ==
  \A t \in DOMAIN tasks :
    (cfg.mode = "sync" /\ tasks[t].st = "done" /\ KindOf(t) = "dir"
       /\ tasks[t].status \in Outcomes) =>
      IF tasks[t].found # NoItem
      THEN tasks[t].status = "SYNCHRONIZED" /\ tasks[t].nmut = 0
      ELSE /\ tasks[t].status = "CREATED"
           /\ ~cfg.pretend =>
                \A n \in 1..Len(PathOf(t)) :
                  Resolve(remote, RootId, SubSeq(PathOf(t), 1, n)) >= 0

\* the task of bar/qux has created bar and bar/qux, and bar was found in place
C9_Witness ==
  /\ ~cfg.pretend /\ RunComplete
  /\ \E t \in DOMAIN tasks :
       /\ KindOf(t) = "dir" /\ PathOf(t) = <<"bar", "qux">>
       /\ tasks[t].status = "CREATED" /\ tasks[t].nmut = 2
       /\ Resolve(remote, RootId, PathOf(t)) >= 0
  /\ StatusAt(tasks, <<"bar">>) = "SYNCHRONIZED"

FilesNamed(parentId, name) == Named(remote, parentId, "file", name)

\* C10: a file with no remote file at its path is UPLOADED; with one whose stored
\* hash equals the local digest it is SYNCHRONIZED and nothing is uploaded; with one
\* whose hash differs it is UPGRADED and, unless pretend, one new version of that
\* file is uploaded and no second file.
C10_File ==
  \A t \in DOMAIN tasks :
    (cfg.mode = "sync" /\ tasks[t].st = "done" /\ KindOf(t) = "file"
       /\ tasks[t].status \in Outcomes) =>
      LET found == tasks[t].found
      IN IF found = NoItem THEN tasks[t].status = "UPLOADED"
         ELSE IF cfg.localHash = found.sha1
         THEN tasks[t].status = "SYNCHRONIZED" /\ tasks[t].nmut = 0
         ELSE /\ tasks[t].status = "UPGRADED"
              /\ cfg.pretend => tasks[t].nmut = 0
              /\ ~cfg.pretend =>
                   /\ tasks[t].req.op = "uploadV" /\ tasks[t].req.id = found.id
                   /\ ItemById(remote, found.id).sha1 = cfg.localHash
                   /\ ItemById(remote, found.id).etag = found.etag + 1
                   /\ Cardinality(FilesNamed(RootId, found.name)) = 1

\* foo differed from the remote file and a new version of that file was uploaded
C10_Witness ==
  /\ ~cfg.pretend
  /\ \E t \in DOMAIN tasks :
       /\ tasks[t].st = "done" /\ KindOf(t) = "file" /\ tasks[t].status = "UPGRADED"
       /\ tasks[t].found.sha1 = "H2" /\ ItemById(remote, tasks[t].found.id).sha1 = "H1"

\* the tasks whose entry carries an error of the traversal
Denied == {t \in DOMAIN tasks : Entries[t].error}

DeniedInv ==
  /\ \A t \in Denied :
       /\ \A w \in Workers : proc[w].task # t
       /\ Done(t) => /\ tasks[t].status = "DENIED"
                     /\ tasks[t].error = AccessError
                     /\ tasks[t].ncalls = 0
                     /\ tasks[t].args = {}
                     /\ tasks[t].reports = 1

\* C11: an entry that carries a local access error is reported as DENIED with
\* that error, no remote call is made for it, and the run still processes every
\* other entry to its end.
C11_Denied ==
  /\ []DeniedInv
  /\ (\E t \in Denied : Done(t)) ~> RunComplete

C11_Witness ==
  /\ RunComplete
  /\ \E t \in Denied : tasks[t].status = "DENIED" /\ tasks[t].ncalls = 0
  /\ \E u \in DOMAIN tasks : u \notin Denied /\ tasks[u].status = "CREATED"
  /\ \E u \in DOMAIN tasks : u \notin Denied /\ tasks[u].status = "UPLOADED"

RunningTasks == {t \in DOMAIN tasks : tasks[t].st = "running"}

CompletionIsLast == main = "completed" => RunComplete

\* C13: once the walker has finished and every pushed task is done, main goes
\* on past its wait for the queue and reports completion, in every interleaving
\* (tasks that all finish before the traversal ends, a traversal without
\* entries), and never reports it while a pushed task is unfinished.
C13_AsStated ==
  /\ []CompletionIsLast
  /\ RunComplete ~> (main = "completed")

\* the wait of main is never answered: the queue was idle before main got there
C13_Stuck ==
  /\ RunComplete
  /\ main = "draining"

\* no other call overlaps call t
Alone(t) ==
  \A u \in DOMAIN tasks \ {t} :
    u \in tasks[t].after \/ t \in tasks[u].after \/ tasks[u].st \in {"new", "queued"}

\* how many leading segments of the path of t were folders of the remote when t began
Had(t) ==
  LET p == PathOf(t)
      n == {k \in 0..Len(p) : Resolve(tasks[t].before, RootId, SubSeq(p, 1, k)) # -1}
  IN CHOOSE k \in n : \A j \in n : j <= k

Spellings == {{"bar_nfc", "bar_nfd"}, {"foo_nfc", "foo_nfd"}}

SameName(a, b) == a = b \/ \E n \in Spellings : a \in n /\ b \in n

\* the remote entity of a kind under a parent whose name is a spelling of the
\* given name: its id, or -1
IdNamed(store, parentId, type, name) ==
  LET m == {it \in ItemsOf(store, parentId) : it.type = type /\ SameName(it.name, name)}
  IN IF m = {} THEN -1 ELSE (CHOOSE it \in m : TRUE).id

\* one lookup of a single segment after the other, each under the result of the last
RECURSIVE Chained(_, _, _)
Chained(store, parentId, path) ==
  IF path = <<>> \/ parentId = -1 THEN parentId
  ELSE Chained(store, IdNamed(store, parentId, "folder", Head(path)), Tail(path))

IdOf(item) == IF item = NoItem THEN -1 ELSE item.id

IsLookup(t) == Entries[t].kind \in {"find", "chain", "findFile"}

\* what the path of lookup t names in the remote: an id, or -1
Target(t) ==
  LET p == PathOf(t)
      n == Len(p)
  IN IF Entries[t].kind = "findFile"
     THEN LET d == Chained(remote, RootId, SubSeq(p, 1, n - 1))
          IN IF d = -1 THEN -1 ELSE IdNamed(remote, d, "file", p[n])
     ELSE Chained(remote, RootId, p)

\* the remote has answered every request of lookup t
Unfailed(t) == tasks[t].n429 = 0 /\ tasks[t].nother = 0

\* C14: findFolderByPath of a path of three segments returns what three
\* lookups of one segment return, each made under the result of the one before,
\* whether a segment is answered from the cache or from a listing.
C14_Chained ==
  /\ \A t \in DOMAIN tasks :
       (Done(t) /\ Entries[t].kind \in {"find", "chain"}) =>
         /\ tasks[t].status = "RETURNED"
         /\ IdOf(tasks[t].result) = Chained(remote, RootId, PathOf(t))
         /\ tasks[t].result # NoItem => tasks[t].result \in remote
  /\ \A t, u \in DOMAIN tasks :
       (Done(t) /\ Done(u) /\ Entries[t].kind = "find" /\ Entries[u].kind = "chain"
          /\ PathOf(t) = PathOf(u)) => tasks[t].result = tasks[u].result

\* bar/qux/zot found by one call from listings, by the chain, and by a later call
\* with fewer requests
C14_Witness ==
  \E t, u, v \in DOMAIN tasks :
    /\ Done(t) /\ Done(u) /\ Done(v) /\ t # v
    /\ Entries[t].kind = "find" /\ Entries[u].kind = "chain" /\ Entries[v].kind = "find"
    /\ Len(PathOf(t)) = 3 /\ PathOf(u) = PathOf(t) /\ PathOf(v) = PathOf(t)
    /\ tasks[t].result.id = 4 /\ tasks[u].result.id = 4 /\ tasks[v].result.id = 4
    /\ t \in tasks[v].after /\ tasks[v].ncalls < tasks[t].ncalls

\* C15: findFolderByPath and findFileByPath return undefined, with no error,
\* when a segment of the path is missing in the remote and when the name is
\* there only as an entity of the other kind.
C15_Undefined ==
  \A t \in DOMAIN tasks :
    (Done(t) /\ IsLookup(t) /\ Unfailed(t) /\ Target(t) = -1) =>
      /\ tasks[t].status = "RETURNED"
      /\ tasks[t].result = NoItem
      /\ tasks[t].error = NoError

\* findFileByPath below a missing folder and findFolderByPath of a file's name
C15_Witness ==
  \E t, u \in DOMAIN tasks :
    /\ Done(t) /\ Entries[t].kind = "findFile" /\ PathOf(t) = <<"nope", "foo">>
    /\ tasks[t].status = "RETURNED" /\ tasks[t].result = NoItem
    /\ Done(u) /\ Entries[u].kind = "find" /\ PathOf(u) = <<"foo">>
    /\ IdNamed(remote, RootId, "file", "foo") # -1
    /\ tasks[u].status = "RETURNED" /\ tasks[u].result = NoItem

\* C16: a lookup finds the entity whose name equals the requested name once
\* both are normalized, file or folder, from the cache and from a listing, and
\* never returns an entity whose normalized name differs.
C16_Normalized ==
  \A t \in DOMAIN tasks :
    (Done(t) /\ IsLookup(t) /\ Unfailed(t)) =>
      LET p == PathOf(t)
          r == tasks[t].result
      IN /\ r # NoItem => SameName(r.name, p[Len(p)])
         /\ (\E it \in remote : it.id = Target(t)) =>
              /\ r.id = Target(t)
              /\ IsKind(IF Entries[t].kind = "findFile" THEN "file" ELSE "folder", r)

\* foo_nfd under bar_nfd is found as foo_nfc under bar_nfc by a listing and again
\* from the cache; bar, which no normalization makes bar_nfc, is not found
C16_Witness ==
  \E t, u, v \in DOMAIN tasks :
    /\ Done(t) /\ Done(u) /\ Done(v) /\ t # v
    /\ Entries[t] = Call("findFile", <<"bar_nfd", "foo_nfd">>) /\ Entries[v] = Entries[t]
    /\ tasks[t].result.name = "foo_nfc" /\ tasks[v].result.name = "foo_nfc"
    /\ tasks[t].ncalls > 0 /\ t \in tasks[v].after /\ tasks[v].ncalls = 0
    /\ Entries[u] = Call("find", <<"bar">>) /\ tasks[u].result = NoItem

\* the conditional fetch in flight is the revalidation of a cached entity
Revalidating(w) ==
  LET f == proc[w]
  IN (f.pc \in {"call", "resp"} /\ f.req.op = "cond") =>
       /\ ~cfg.disableValidation
       /\ f.cached # NoItem
       /\ f.req.id = f.cached.id /\ f.req.type = f.cached.type
       /\ f.req.etag = f.cached.etag
       /\ IsKind(WantKind(f), f.cached) /\ SameName(f.cached.name, WantName(f))
       /\ f.attempts = (IF f.pc = "call" THEN 0 ELSE 1)

\* C20: a lookup answered from the cache with revalidation enabled sends one
\* conditional fetch with the etag of the cached entity; answered 304 it returns
\* the cached entity; answered with an error other than 304 and 404 it fails
\* with that error; with revalidation disabled it returns the cached entity
\* and sends no conditional fetch at all.
C20_Revalidation ==
  /\ \A w \in Workers : Revalidating(w)
  /\ \A t \in DOMAIN tasks :
       (Done(t) /\ IsLookup(t)) =>
         /\ cfg.disableValidation => \A rq \in tasks[t].args : rq.op # "cond"
         /\ (tasks[t].req.op = "cond" /\ tasks[t].last.code = 304) =>
              /\ tasks[t].status = "RETURNED"
              /\ tasks[t].result.id = tasks[t].req.id
              /\ tasks[t].result.etag = tasks[t].req.etag
              /\ tasks[t].attempts = 1
         /\ (tasks[t].req.op = "cond" /\ tasks[t].last.code \notin {200, 304, 404}) =>
              /\ tasks[t].status = "FAILURE"
              /\ tasks[t].error = tasks[t].last
              /\ tasks[t].attempts = 1
         /\ (cfg.disableValidation /\ tasks[t].ncalls = 0 /\ Target(t) # -1) =>
              /\ tasks[t].status = "RETURNED"
              /\ tasks[t].result.id = Target(t)

\* one lookup returned the cached file after a 304 and another failed with the
\* error its conditional fetch was answered with
C20_Witness ==
  \E t, u \in DOMAIN tasks :
    /\ Done(t) /\ tasks[t].req.op = "cond" /\ tasks[t].last.code = 304
    /\ tasks[t].status = "RETURNED" /\ tasks[t].result.id = 5
    /\ Done(u) /\ tasks[u].req.op = "cond" /\ tasks[u].last.code \in {429, 500}
    /\ tasks[u].status = "FAILURE"

AsSet(entry) == {entry[k] : k \in DOMAIN entry}

\* merging x into cache c: the entry of the parent of x has x as its one entity
\* of that type and id, keeps every other entity it had and gains nothing else,
\* and no other entry changes
MergedRight(c, x) ==
  LET d == cacheItem(c, x)
      e == d[x.parent]
      old == c[x.parent]
  IN /\ Cardinality({k \in DOMAIN e : SameEntity(e[k], x)}) = 1
     /\ x \in AsSet(e)
     /\ \A o \in AsSet(old) : ~SameEntity(o, x) => o \in AsSet(e)
     /\ AsSet(e) \subseteq AsSet(old) \cup {x}
     /\ \A p \in DOMAIN c : p # x.parent => d[p] = c[p]

\* C18: after an entity is merged into the cache, the entry of its parent holds
\* exactly one entity of that type and id, the one just observed, and still
\* holds every other entity it held.
C18_Merge ==
  /\ \A k \in Workers : \A x \in CacheInputs : MergedRight(cache[k], x)
  /\ \A w \in Workers :
       (proc[w].pc = "caching" /\ proc[w].i > 0) =>
         LET x == proc[w].resp.item
             e == cache[CacheOf(w)][x.parent]
         IN x \in AsSet(e) /\ \A o \in AsSet(e) : SameEntity(o, x) => o = x

\* a newer version of a cached entity has been merged next to another entity
C18_Witness ==
  \E w \in Workers :
    /\ proc[w].pc = "caching" /\ proc[w].i = MaxMerge
    /\ LET x == proc[w].resp.item
           e == cache[CacheOf(w)][x.parent]
       IN /\ x.etag = 1
          /\ Len(e) >= 3
          /\ e[1] = x
          /\ \E y \in CacheInputs : SameEntity(x, y) /\ y # x /\ MergedRight(cache[CacheOf(w)], y)

\* C19: merging two entities of one parent that differ in type or id gives the
\* same set of cached entities in either order, and merging an entity a second
\* time changes nothing.
C19_OrderAndRepeat ==
  \A k \in Workers :
    LET c == cache[k]
    IN /\ \A x, y \in CacheInputs :
            (x.parent = y.parent /\ ~SameEntity(x, y)) =>
              AsSet(cacheItem(cacheItem(c, x), y)[x.parent])
                = AsSet(cacheItem(cacheItem(c, y), x)[x.parent])
       /\ \A x \in CacheInputs : cacheItem(cacheItem(c, x), x) = cacheItem(c, x)

\* the cache holds a folder and a file of one id, merged in this order, over a listing
C19_Witness ==
  \E w \in Workers :
    /\ proc[w].pc = "caching" /\ proc[w].i >= 2
    /\ LET e == cache[CacheOf(w)][RootId]
       IN /\ Len(e) = 4
          /\ e[1].type = "file" /\ e[2].type = "folder" /\ e[1].id = e[2].id

\* the lookup t ended on a conditional fetch that was answered 404
Gone(t) ==
  /\ Done(t) /\ IsLookup(t)
  /\ tasks[t].req.op = "cond" /\ tasks[t].last.code = 404

\* the entity of the last request of t is in some entry of a cache
StillCached(t) ==
  \E k \in Workers : \E p \in DOMAIN cache[k] : \E j \in DOMAIN cache[k][p] :
    cache[k][p][j].type = tasks[t].req.type /\ cache[k][p][j].id = tasks[t].req.id

\* C21: a lookup whose revalidation is answered 404 returns undefined without
\* an error, and the stale entity is then gone from the cache: no later lookup
\* of the name hits it (none revalidates it again).
C21_AsStated ==
  \A t \in DOMAIN tasks :
    Gone(t) =>
      /\ tasks[t].status = "RETURNED" /\ tasks[t].result = NoItem
      /\ tasks[t].error = NoError
      /\ ~StillCached(t)
      /\ \A w \in Workers :
           (proc[w].pc = "call" /\ proc[w].req.op = "cond" /\ t \in tasks[proc[w].task].after)
             => proc[w].req.id # tasks[t].req.id

\* what the code does: undefined and no error, and the cache is left as it was
Absent ==
  \A t \in DOMAIN tasks :
    Gone(t) => /\ tasks[t].status = "RETURNED" /\ tasks[t].result = NoItem
               /\ tasks[t].error = NoError

\* a lookup was answered 404 and a later one hit the stale entity and asked again
C21_Stale ==
  \E t, u \in DOMAIN tasks :
    /\ Gone(t) /\ Gone(u) /\ t \in tasks[u].after
    /\ tasks[u].req.id = tasks[t].req.id
    /\ tasks[u].ncalls = 1
    /\ StillCached(t)

\* the response of a wrapped call is a failure that no retry callback takes up
Fatal(f) ==
  /\ f.req.op # "cond"
  /\ f.resp.code \notin {200, 429}
  /\ ~(f.req.op = "create" /\ f.resp.code = 409)

\* C22: a failure that is not a rate-limit error (nor, for folder creation, a
\* conflict) ends the call at once: the request is not sent again, nothing is
\* slept, and the caller gets the very error that came; when nothing was retried
\* before, that is after exactly one attempt.
C22_NoRetry ==
  [][\A w \in Workers :
       (proc[w].pc = "resp" /\ Fatal(proc[w]) /\ proc'[w] # proc[w]) =>
         /\ proc'[w] = Idle
         /\ tasks'[proc[w].task].st = "done"
         /\ tasks'[proc[w].task].status = "FAILURE"
         /\ tasks'[proc[w].task].error = proc[w].resp
         /\ tasks'[proc[w].task].last = proc[w].resp
         /\ tasks'[proc[w].task].ncalls = proc[w].ncalls
         /\ (proc[w].n429 = 0 /\ proc[w].nother = 1) => tasks'[proc[w].task].attempts = 1]_vars

\* the get of BoxFinder.create and a create were each answered 500 and failed
\* with it after a single attempt
C22_Witness ==
  \E t, u \in DOMAIN tasks :
    /\ Done(t) /\ tasks[t].req.op = "get" /\ Done(u) /\ tasks[u].req.op = "create"
    /\ \A x \in {t, u} :
         /\ tasks[x].status = "FAILURE" /\ tasks[x].error.code = 500
         /\ tasks[x].attempts = 1 /\ tasks[x].error = tasks[x].last

\* the requests of uploadNewFileVersion
VersionOps == {"preflightV", "uploadV", "sessionV", "commitV"}

\* the files of the remote that have this name under this parent
FilesCalled(parentId, name) ==
  {x \in remote : x.type = "file" /\ x.parent = parentId /\ x.name = name}

\* C23: when the preflight check of uploadFile is answered 409 with a conflicting
\* file, the call goes on as an upload of a new version of that file, and stays
\* one: it never creates a second file of the name; a 409 that names no file and
\* every other failure of the preflight check (but a 429 within the budget) is
\* thrown as it came, and the call has uploaded nothing.
C23_Conflict ==
  [][\A w \in Workers :
       LET f == proc[w]
           g == proc'[w]
           t == tasks'[f.task]
       IN (f.pc = "resp" /\ g # f) =>
            /\ (f.req.op = "preflight" /\ f.resp.code = 409 /\ isMiniFile(f.resp.item)) =>
                 /\ g.pc = "call" /\ g.req.op = "preflightV"
                 /\ g.req.id = f.resp.item.id /\ g.nmut = 0
            /\ (f.req.op \in VersionOps /\ g.pc = "call") =>
                 g.req.op \in VersionOps /\ g.req.id = f.req.id
            /\ (f.req.op = "preflight" /\ f.resp.code \notin {200, 429}
                  /\ ~isMiniFile(f.resp.item)) =>
                 /\ g = Idle /\ t.st = "done" /\ t.status = "FAILURE"
                 /\ t.error = f.resp /\ t.nmut = 0
            /\ \A x \in remote' : Cardinality(FilesCalled(x.parent, x.name)') <= 1]_vars

\* one call met the file foo at its preflight check and uploaded a new version of
\* it, the other was answered a conflict without a file and failed with it
C23_Witness ==
  \E t, u \in DOMAIN tasks :
    /\ Done(t) /\ tasks[t].status = "UPLOADED" /\ tasks[t].req.op \in {"uploadV", "commitV"}
    /\ tasks[t].nmut = 1 /\ tasks[t].ncalls = 3
    /\ \E x \in FilesCalled(RootId, "foo") : x.etag > 0 /\ x.id = tasks[t].req.id
    /\ Done(u) /\ tasks[u].status = "FAILURE" /\ tasks[u].req.op = "preflight"
    /\ tasks[u].error.code = 409 /\ tasks[u].error.item = NoItem /\ tasks[u].nmut = 0

\* the entry of the cache of worker w, after the step, for the parent of x
EntryAfter(w, x) == cache'[CacheOf(w)][x.parent]

\* C24: at the step at which uploadFile or uploadNewFileVersion returns, by the
\* simple or by the chunked path, the cache entry of the parent of the file holds
\* the file just answered by the remote and no other observation of that file.
C24_Cached ==
  [][\A w \in Workers :
       LET f == proc[w]
       IN (/\ f.pc = "resp" /\ proc'[w] # f /\ f.resp.code = 200
           /\ f.req.op \in {"upload", "uploadV", "commit", "commitV"}) =>
            LET x == f.resp.entries[1]
            IN /\ proc'[w] = Idle
               /\ tasks'[f.task].status \in {"UPLOADED", "UPGRADED"}
               /\ (f.req.op \in {"commit", "commitV"}) = Chunked(f)
               /\ \E j \in DOMAIN EntryAfter(w, x) : EntryAfter(w, x)[j] = x
               /\ \A j \in DOMAIN EntryAfter(w, x) :
                    SameEntity(EntryAfter(w, x)[j], x) => EntryAfter(w, x)[j] = x]_vars

\* a file was created by the simple path and a new version of it was then
\* uploaded by the chunked path: the cache holds the new version only
C24_Witness ==
  \E t, u \in DOMAIN tasks :
    /\ Done(t) /\ tasks[t].req.op = "upload" /\ tasks[t].status = "UPLOADED"
    /\ Done(u) /\ tasks[u].req.op = "commitV" /\ tasks[u].status = "UPLOADED"
    /\ tasks[u].last.entries[1].id = tasks[t].last.entries[1].id
    /\ tasks[u].last.entries[1].etag > tasks[t].last.entries[1].etag
    /\ \E j \in DOMAIN cache[1][RootId] : cache[1][RootId][j] = tasks[u].last.entries[1]
    /\ \A j \in DOMAIN cache[1][RootId] : cache[1][RootId][j] # tasks[t].last.entries[1]

\* the directories the walker enumerates: the root, and every directory it yielded
Visited(dir) ==
  \/ dir = <<>>
  \/ \E i \in 1..Len(Entries) :
       Entries[i].path = dir /\ Entries[i].kind = "dir" /\ ~Entries[i].error

\* the positions, among those yielded so far, of the entries that carry an error for dir
ErrorsAt(dir) == {i \in 1..walked : Entries[i].error /\ Entries[i].path = dir}

\* the position of the entry of the dirent named name of dir, 0 when there is none
EntryOf(dir, name) ==
  LET at == {i \in 1..Len(Entries) : Entries[i].path = Append(dir, name) /\ ~Entries[i].error}
  IN IF at = {} THEN 0 ELSE CHOOSE i \in at : TRUE

\* C25: a directory whose enumeration fails gives exactly one entry that carries
\* the error, with the path of that directory and nothing below it, and the
\* traversal goes on: every dirent of every directory that could be enumerated is
\* yielded, those after the failed directory after its error entry.
C25_ErrorEntry ==
  /\ \A i \in 1..walked :
       Entries[i].error =>
         /\ Entries[i].path \in cfg.unreadable /\ Visited(Entries[i].path)
         /\ ErrorsAt(Entries[i].path) = {i}
         /\ \A j \in 1..Len(Entries) :
              IsPrefix(Entries[i].path, Entries[j].path) /\ Entries[i].path # <<>>
                => Len(Entries[j].path) = Len(Entries[i].path)
  /\ walked = Len(Entries) =>
       \A dir \in Directories :
         Visited(dir) =>
           IF dir \in cfg.unreadable THEN Cardinality(ErrorsAt(dir)) = 1
           ELSE /\ ErrorsAt(dir) = {}
                /\ \A k \in DOMAIN ReadDir(dir) :
                     /\ EntryOf(dir, ReadDir(dir)[k].name) # 0
                     /\ \A h \in 1..(k - 1) :
                          /\ EntryOf(dir, ReadDir(dir)[h].name) < EntryOf(dir, ReadDir(dir)[k].name)
                          /\ \A e \in ErrorsAt(Append(dir, ReadDir(dir)[h].name)) :
                               e < EntryOf(dir, ReadDir(dir)[k].name)

\* bar and zot could not be enumerated: each gave one error entry, and foo, the
\* sibling between them, was yielded after the error of bar
C25_Witness ==
  /\ cfg.tree = "wide" /\ cfg.unreadable = {<<"bar">>, <<"zot">>}
  /\ walked = Len(Entries) /\ walked = 5
  /\ \E i \in ErrorsAt(<<"bar">>), k \in ErrorsAt(<<"zot">>) :
       /\ i < EntryOf(<<>>, "foo") /\ EntryOf(<<>>, "foo") < k
       /\ EntryOf(<<>>, "bar") = i - 1

\* Entries[j] is yielded for something of the directory of Entries[i]
Below(i, j) ==
  /\ Entries[i].kind = "dir" /\ ~Entries[i].error
  /\ IsPrefix(Entries[i].path, Entries[j].path)
  /\ Len(Entries[j].path) > Len(Entries[i].path) \/ Entries[j].error

\* C26: at every moment of the traversal what has been yielded is in depth-first
\* pre-order: the entry of a directory comes before every entry below it, the
\* entries below it follow it without a gap, and so all come before the next
\* sibling of the directory.
C26_PreOrder ==
  /\ \A i, j \in 1..Len(Entries) : Below(i, j) => i < j
  /\ \A i, j, k \in 1..walked : (i < j /\ j < k /\ Below(i, k)) => Below(i, j)
  /\ \A j \in 1..walked :
       (Len(Entries[j].path) > 1 \/ (Entries[j].error /\ Entries[j].path # <<>>))
         => \E i \in 1..(j - 1) : Below(i, j)

\* bar, bar/qux, bar/qux/foo, bar/baz, then foo and zot: the whole of bar before
\* its sibling
C26_Witness ==
  /\ cfg.tree = "wide" /\ cfg.unreadable = {} /\ walked = Len(Entries)
  /\ [i \in 1..walked |-> Entries[i].path]
       = << <<"bar">>, <<"bar", "qux">>, <<"bar", "qux", "foo">>, <<"bar", "baz">>,
            <<"foo">>, <<"zot">> >>

\* the folder id task t passed to BoxFinder.create, the root's when it passed none
Asked(t) == IF Entries[t].folderId = {} THEN {RootId} ELSE Entries[t].folderId

\* C27: BoxFinder.create returns a finder whose current folder has the id given,
\* or the id of the root when none is given; when the fetch of that folder fails,
\* after the retries of a rate limit have run out or at once for any other
\* failure, the call throws that failure and gives no finder.
C27_Create ==
  \A t \in DOMAIN tasks :
    (Done(t) /\ Entries[t].kind = "open") =>
      /\ tasks[t].req.op = "get" /\ tasks[t].req.id \in Asked(t)
      /\ IF tasks[t].last.code = 200
         THEN /\ tasks[t].status = "RETURNED" /\ tasks[t].result.id \in Asked(t)
              /\ isMiniFolder(tasks[t].result)
              /\ tasks[t].result = ItemById(remote, tasks[t].result.id)
         ELSE /\ tasks[t].status = "FAILURE" /\ tasks[t].result = NoItem
              /\ tasks[t].error = tasks[t].last
              /\ tasks[t].last.code = 429 => tasks[t].n429 = INIT_RETRY_TIMES + 1

\* a finder of the root without an id given, after a retried 429, and no finder
\* for an id that names no folder
C27_Witness ==
  \E t, u \in DOMAIN tasks :
    /\ Done(t) /\ Entries[t].folderId = {} /\ tasks[t].status = "RETURNED"
    /\ tasks[t].result = Root /\ tasks[t].n429 = 1
    /\ Done(u) /\ Entries[u].folderId = {MaxId} /\ tasks[u].status = "FAILURE"
    /\ tasks[u].error.code = 404 /\ tasks[u].attempts = 1

\* the entries of the local tree that the remote entity x is the counterpart of
Counterparts(x) ==
  {i \in DOMAIN Entries :
     /\ ~Entries[i].error /\ Entries[i].path # <<>>
     /\ (Entries[i].kind = "dir") = (x.type = "folder")
     /\ SameName(Entries[i].path[Len(Entries[i].path)], x.name)
     /\ Resolve(remote, RootId, SubSeq(Entries[i].path, 1, Len(Entries[i].path) - 1)) = x.parent}

\* C28: no step of a synchronization run sends a delete request or removes an
\* entity from the remote: every entity stays, with its id, type, name and parent,
\* and one with no counterpart in the local tree stays as it is.
C28_NoDelete ==
  [][/\ \A w \in Workers : proc'[w].req.op # "delete"
     /\ \A x \in remote :
          /\ \E y \in remote' : /\ y.id = x.id /\ y.type = x.type
                                /\ y.name = x.name /\ y.parent = x.parent
          /\ Counterparts(x) = {} => x \in remote']_vars

\* the tree has bar/ and bar/qux/ only: the run is complete, it has created
\* bar/qux, and the remote file foo, which has no local counterpart, is as it was
C28_Witness ==
  /\ cfg.mode = "sync" /\ cfg.tree = "dirs" /\ RunComplete
  /\ Resolve(remote, RootId, <<"bar", "qux">>) >= 0
  /\ NewFile(2, RootId, "foo", "H2") \in remote
  /\ Counterparts(NewFile(2, RootId, "foo", "H2")) = {}
  /\ \A x \in RemoteBefore : x \in remote

\* entry e holds some entity at two positions
Twice(e) == \E i, j \in DOMAIN e : i < j /\ SameEntity(e[i], e[j])

\* C29: in every reachable state no entry of a cache holds two entities of the
\* same type and id.
C29_AsStated ==
  \A k \in Workers : \A p \in DOMAIN cache[k] : ~Twice(cache[k][p])

\* two lookups have listed the same folder page by page at the same time, both
\* have returned, and the entry of that folder holds an entity twice
C29_Twice ==
  \E t, u \in DOMAIN tasks :
    /\ t # u /\ Done(t) /\ Done(u)
    /\ tasks[t].status = "RETURNED" /\ tasks[u].status = "RETURNED"
    /\ tasks[t].req.op = "list" /\ tasks[u].req.op = "list"
    /\ tasks[t].req.id = tasks[u].req.id
    /\ Twice(cache[1][tasks[t].req.id])

\* the page in the response of frame f has an entity of the kind and name f looks for
PageMatches(f) ==
  \E j \in DOMAIN f.resp.entries :
    IsKind(WantKind(f), f.resp.entries[j]) /\ SameName(f.resp.entries[j].name, WantName(f))

\* frame g is at a request for a page of the folder frame f has listed
ListsOn(f, g) == g.pc = "call" /\ g.req.op = "list" /\ g.req.id = f.req.id

\* C30: a listing starts with a request without a marker; when a page has come,
\* it is in the entry of the listed folder in the cache, the next page is asked
\* for with the marker of this one if the name is not in it and it has one, and
\* no further page is asked for if the name is in it; a lookup that ended on a
\* listing reports the name absent only on a page without a next marker.
C30_Pages ==
  /\ [][\A w \in Workers :
          LET f == proc[w]
              g == proc'[w]
              e == cache'[CacheOf(w)][f.req.id]
          IN /\ (f.pc = "resp" /\ f.req.op = "list" /\ f.resp.code = 200 /\ g # f) =>
                  /\ \A j \in DOMAIN f.resp.entries : \E i \in DOMAIN e : e[i] = f.resp.entries[j]
                  /\ f.req.marker = 0 => e = f.resp.entries
                  /\ (~PageMatches(f) /\ f.resp.next # 0) =>
                       ListsOn(f, g) /\ g.req.marker = f.resp.next /\ g.task = f.task
                  /\ (PageMatches(f) \/ f.resp.next = 0) => ~(ListsOn(f, g) /\ g.req.marker # 0)
             /\ (g.pc = "call" /\ g.req.op = "list" /\ g.req.marker # 0) =>
                  /\ f.req.op = "list" /\ f.req.id = g.req.id
                  /\ f.pc \in {"resp", "call"}
                  /\ f.pc = "call" => g = f
                  /\ f.pc = "resp" => (f.resp.next = g.req.marker \/
                                        (f.resp.code = 429 /\ f.req.marker = g.req.marker))]_vars
  /\ [](\A t \in DOMAIN tasks :
          (Done(t) /\ IsLookup(t) /\ tasks[t].req.op = "list" /\ tasks[t].status = "RETURNED"
             /\ tasks[t].result = NoItem) =>
            tasks[t].last.code = 200 /\ tasks[t].last.next = 0)

\* a lookup alone has listed the root in two pages, the second asked for with a
\* marker, has reported the name absent, and both pages are in the entry of the root
C30_Witness ==
  \E t \in DOMAIN tasks :
    /\ Done(t) /\ tasks[t].after = {} /\ \A u \in DOMAIN tasks : u # t => tasks[u].st \in {"new", "queued"}
    /\ tasks[t].req.op = "list" /\ tasks[t].req.marker # 0 /\ tasks[t].ncalls = 2
    /\ tasks[t].status = "RETURNED" /\ tasks[t].result = NoItem
    /\ Len(cache[1][RootId]) = 2 /\ cache[1][RootId][2] = tasks[t].last.entries[1]

\* the response in frame f is a conflict of a create that names no entity
BareConflict(f) ==
  f.pc = "resp" /\ f.req.op = "create" /\ f.resp.code = 409 /\ f.resp.item = NoItem

\* C31: a create answered 409 without a conflicting entity is sent again, after a
\* sleep of the delay drawn for it, with the same parent and name and with one
\* retry less left, as long as a retry is left; with none left the call throws
\* that 409 as it came, which is after INIT_RETRY_TIMES + 1 such answers.
C31_ConflictRetry ==
  /\ [][\A w \in Workers :
          LET f == proc[w]
              g == proc'[w]
          IN (BareConflict(f) /\ g # f) =>
               IF f.rc > 0
               THEN /\ g.pc = "call" /\ g.task = f.task /\ g.req = f.req
                    /\ g.rc = f.rc - 1
                    /\ \E jitter \in 0..9 : /\ g.delay = jitter * 1000
                                            /\ jitter * f.rc < 10
               ELSE /\ g = Idle /\ tasks'[f.task].status = "FAILURE"
                    /\ tasks'[f.task].error = f.resp]_vars
  /\ [](\A t \in DOMAIN tasks :
          (Done(t) /\ tasks[t].req.op = "create" /\ tasks[t].last.code = 409
             /\ tasks[t].last.item = NoItem) =>
            /\ tasks[t].status = "FAILURE" /\ tasks[t].error = tasks[t].last
            /\ tasks[t].nother = INIT_RETRY_TIMES + 1
            /\ Cardinality(tasks[t].args) = 1)

\* a create was answered a bare 409 six times in a row and failed with the last
C31_Witness ==
  \E t \in DOMAIN tasks :
    /\ Done(t) /\ tasks[t].req.op = "create" /\ tasks[t].status = "FAILURE"
    /\ tasks[t].error.code = 409 /\ tasks[t].error.item = NoItem
    /\ tasks[t].attempts = INIT_RETRY_TIMES + 1 /\ tasks[t].n429 = 0
    /\ tasks[t].nmut = INIT_RETRY_TIMES + 1

\* frame g is frame f's request sent once more, after one more sleep
Retried(f, g) ==
  /\ g.pc = "call" /\ g.task = f.task /\ g.req = f.req
  /\ g.sleeps = f.sleeps + 1

\* C32: a failed create is followed by at most one sleep, that of one layer: a 429
\* is retried by the rate-limit layer only (its count goes down, the conflict
\* layer's stays, and a 429 with no rate-limit retry left is thrown), a bare 409
\* by the conflict layer only (its count goes down, the rate-limit layer starts
\* afresh), and a retry sends the parent id and name of the first attempt.
C32_OneSleep ==
  [][\A w \in Workers :
       LET f == proc[w]
           g == proc'[w]
       IN (f.pc = "resp" /\ f.req.op = "create" /\ f.resp.code # 200 /\ g # f) =>
            /\ g.pc = "call" /\ g.req.op = "create" =>
                 /\ Retried(f, g)
                 /\ f.creates[1] = [parent |-> g.req.id, name |-> g.req.name]
            /\ f.resp.code = 429 =>
                 IF f.rt > 0
                 THEN Retried(f, g) /\ g.rt = f.rt - 1 /\ g.rc = f.rc
                 ELSE g = Idle /\ tasks'[f.task].error = f.resp
            /\ (BareConflict(f) /\ f.rc > 0) =>
                 Retried(f, g) /\ g.rc = f.rc - 1 /\ g.rt = INIT_RETRY_TIMES
            /\ f.resp.code \notin {429, 409} => g = Idle]_vars

\* a create in flight for the third time: it was answered a 429 and a bare 409,
\* each slept on once
C32_Witness ==
  \E w \in Workers :
    /\ proc[w].pc = "call" /\ proc[w].req.op = "create"
    /\ proc[w].n429 = 1 /\ proc[w].nother = 1 /\ proc[w].attempts = 2
    /\ proc[w].sleeps = 2 /\ proc[w].rc = INIT_RETRY_TIMES - 1

\* frame f is at a retry: its request was sent again after a sleep of f.delay
\* milliseconds, decided on the answer f.last with retries f.rt + 1 left
AtRetry(f) == f.pc = "call" /\ f.sleeps > 0 /\ f.last.code = 429

\* C33: the delay before a retry is max(hint, 0) seconds plus a jitter: it is not
\* negative and not shorter than the hint, for every hint and every number of
\* retries left, and the jitter is below 10 / (retries left), a bound that
\* grows as the retries run out.
C33_AsStated ==
  \A w \in Workers :
    AtRetry(proc[w]) =>
      LET hint == proc[w].last.hint
          left == proc[w].rt + 1
      IN /\ proc[w].delay >= 0
         /\ proc[w].delay >= hint * 1000
         /\ \E jitter \in 0..9 :
              /\ jitter * left < 10
              /\ proc[w].delay = ((IF hint > 0 THEN hint ELSE 0) + jitter) * 1000

\* what the code computes: the hint as it came plus the jitter
DelayAsComputed ==
  \A w \in Workers :
    AtRetry(proc[w]) =>
      \E jitter \in 0..9 :
        /\ jitter * (proc[w].rt + 1) < 10
        /\ proc[w].delay = (proc[w].last.hint + jitter) * 1000

\* a retry was sent after a sleep of a negative number of milliseconds
C33_Negative ==
  \E w \in Workers :
    /\ AtRetry(proc[w]) /\ proc[w].last.hint < 0
    /\ proc[w].delay < 0

\* the path of the directory of the file frame f works on
DirOf(f) == SubSeq(f.path, 1, Len(f.path) - 1)

\* frame f is in uploadFile for a local file that had no remote counterpart
Uploading(f) ==
  /\ cfg.mode = "sync" /\ f.stage = "ensureFile"
  /\ f.req.op \in {"preflight", "upload", "session", "commit"}

\* C34: while a file with no remote counterpart is being uploaded, every ancestor
\* folder of its path exists in the remote and the request names the folder of
\* its parent path, the one createFolderUnlessItExists returned; the creates the
\* task has sent are those of its ancestors, none for a top-level file, whose
\* target is the root; and a request of createFolderUnlessItExists is followed
\* by the preflight check only when it has answered.
C34_ParentFirst ==
  /\ \A w \in Workers :
       LET f == proc[w]
       IN Uploading(f) =>
            /\ ~cfg.pretend
            /\ \A n \in 0..Len(DirOf(f)) : Resolve(remote, RootId, SubSeq(f.path, 1, n)) >= 0
            /\ f.req.id = Resolve(remote, RootId, DirOf(f))
            /\ f.req.name = f.path[Len(f.path)]
            /\ Len(f.creates) <= Len(DirOf(f))
            /\ \A k \in DOMAIN f.creates :
                 \E n \in 1..Len(DirOf(f)) :
                   f.creates[k] = [parent |-> Resolve(remote, RootId, SubSeq(f.path, 1, n - 1)),
                                   name |-> f.path[n]]
            /\ Len(f.path) = 1 => f.req.id = RootId /\ f.creates = <<>>
  /\ \A w \in Workers :
       (cfg.mode = "sync" /\ proc[w].stage = "ensureFile" /\ proc[w].pc = "call"
          /\ proc[w].req.op \in {"list", "get", "cond", "create"}) => proc[w].nmut = Len(proc[w].creates)

\* bar/baz is in flight to the folder bar, which its own task has created, and
\* the top-level barn to the root
C34_Witness ==
  \E v, w \in Workers :
    /\ cfg.tree = "nested"
    /\ Uploading(proc[v]) /\ proc[v].path = <<"bar", "baz">> /\ proc[v].req.op = "upload"
    /\ proc[v].req.id # RootId
    /\ proc[v].creates = <<[parent |-> RootId, name |-> "bar"]>>
    /\ Uploading(proc[w]) /\ proc[w].path = <<"barn">> /\ proc[w].req.id = RootId

\* entry e holds an observation of entity x
Holds(e, x) == \E j \in DOMAIN e : SameEntity(e[j], x)

\* the folders put into the cache by a creation: those a finished call has
\* created with its last request and returned
PutByCreate ==
  {tasks[t].result : t \in {u \in DOMAIN tasks :
      /\ Done(u) /\ tasks[u].status = "RETURNED" /\ tasks[u].req.op = "create"
      /\ tasks[u].last.code = 200 /\ tasks[u].result = tasks[u].last.item}}

\* C35: an entity that a creation has put into the entry of its parent stays in
\* that entry (the model's cache has no size or age limit): no step of any
\* operation, a listing of the parent included, takes it out.
C35_AsStated ==
  [][cfg.shared =>
       \A x \in PutByCreate :
         Holds(cache[1][x.parent], x) => Holds(cache'[1][x.parent], x)]_vars

\* a call has created a folder and returned it, the folder is in the remote, and
\* the entry of its parent in the cache of the call no longer holds it
C35_Dropped ==
  /\ cfg.shared
  /\ \E x \in PutByCreate : x \in remote /\ ~Holds(cache[1][x.parent], x)


(***************************************************************************)
(* SpecRename: the same lookup three times on one finder, with             *)
(* revalidation, while another user of the remote renames entities.        *)
(***************************************************************************)
\* an entity is renamed in the remote by someone else: its etag changes
Rename ==
  /\ \E x \in remote :
       /\ x.name # "qux" /\ Named(remote, x.parent, x.type, "qux") = {}
       /\ remote' = (remote \ {x}) \cup {[x EXCEPT !.name = "qux", !.etag = @ + 1]}
  /\ UNCHANGED <<nextId, cache, proc, queue, walked, tasks, prev, run, cfg, faultsLeft, main>>

InitRename ==
  /\ cfg \in Calls({<<a, a, a>> : a \in {Call("findFile", <<"foo">>), Call("find", <<"bar">>)}},
                   {TRUE}, {FALSE}, {FALSE}, {}, {0})
  /\ InitRemote
  /\ faultsLeft = 0
  /\ InitCommon

NextRename ==
  \/ Push
  \/ Rename
  \/ \E w \in Workers :
       \/ Take(w)
       \/ ServeOk(w)
       \/ Continue(w)

SpecRename == InitRename /\ [][NextRename]_vars

\* the lookup t is a findFileByPath of one segment, which returns what
\* findItemByName gave it, and it has returned an entity
Returned(t) ==
  /\ Done(t) /\ Entries[t].kind = "findFile" /\ Len(PathOf(t)) = 1
  /\ tasks[t].status = "RETURNED" /\ tasks[t].result # NoItem

\* the name the lookup t asked for: the last segment of its path
Requested(t) == PathOf(t)[Len(PathOf(t))]

\* C36: an entity that a lookup by name returns has the requested kind and its
\* normalized name equals the normalized requested name, also when it is the
\* refreshed entity of a revalidation that reported a modification.
C36_AsStated ==
  \A t \in DOMAIN tasks :
    Returned(t) =>
      /\ IsKind("file", tasks[t].result)
      /\ Normalize(tasks[t].result.name) = Normalize(Requested(t))

\* what the code does: the kind is checked after the revalidation, and the
\* name only where the entity comes from the cache unrevalidated or from a listing
KindAsRequested ==
  \A t \in DOMAIN tasks :
    Returned(t) =>
      /\ IsKind("file", tasks[t].result)
      /\ tasks[t].req.op # "cond" \/ tasks[t].last.code # 200
           => Normalize(tasks[t].result.name) = Normalize(Requested(t))

\* a lookup hit the cache, its revalidation answered the renamed entity, and
\* the lookup returned it under the name that was not asked for
C36_Renamed ==
  \E t \in DOMAIN tasks :
    /\ Returned(t)
    /\ tasks[t].req.op = "cond" /\ tasks[t].last.code = 200
    /\ tasks[t].result = tasks[t].last.item
    /\ tasks[t].result.name = "qux" /\ Requested(t) # "qux"

\* the lookup t ended on a conditional fetch that was answered 429
Limited(t) ==
  /\ Done(t) /\ IsLookup(t)
  /\ tasks[t].req.op = "cond" /\ tasks[t].n429 > 0

\* C37: a 429 answer to the conditional revalidation fetch is taken up by the
\* rate-limit retry policy like that of every other remote call: the fetch is
\* sent again, within the budget, and the lookup does not fail at once with
\* the 429.
C37_AsStated ==
  \A t \in DOMAIN tasks :
    Limited(t) =>
      /\ tasks[t].attempts >= 2
      /\ tasks[t].attempts <= INIT_RETRY_TIMES + 1
      /\ tasks[t].last.code = 429 => tasks[t].attempts = INIT_RETRY_TIMES + 1

\* a lookup sent its conditional fetch once, was answered 429 and failed with
\* it without a second attempt
C37_FailedAtOnce ==
  \E t \in DOMAIN tasks :
    /\ Limited(t)
    /\ tasks[t].last.code = 429 /\ tasks[t].status = "FAILURE"
    /\ tasks[t].error = tasks[t].last
    /\ tasks[t].attempts = 1 /\ tasks[t].ncalls = 1

\* C38: in one traversal the walker yields every path at most once, so no local
\* path produces two tasks; a subdirectory that its parent lists and that cannot
\* be enumerated yields a single entry.
C38_AsStated ==
  \A i, j \in 1..walked : Entries[i].path = Entries[j].path => i = j

\* what the code does: a path is yielded twice only as the dirent of a
\* directory followed at once by the error of its enumeration
TwiceOnlyOnError ==
  \A i, j \in 1..walked :
    (Entries[i].path = Entries[j].path /\ i < j) =>
      /\ j = i + 1
      /\ Entries[i].kind = "dir" /\ ~Entries[i].error
      /\ Entries[j].error /\ Entries[j].path \in cfg.unreadable

\* bar is listed by the root and cannot be enumerated: the traversal has
\* yielded two entries for it, the dirent and the error, and both were queued
C38_TwoTasks ==
  /\ <<"bar">> \in cfg.unreadable
  /\ \E i \in 1..(walked - 1) :
       /\ Entries[i].path = <<"bar">> /\ Entries[i].kind = "dir" /\ ~Entries[i].error
       /\ Entries[i + 1].path = <<"bar">> /\ Entries[i + 1].error
       /\ tasks[i].st = "queued" /\ tasks[i + 1].st = "queued"

\* path is the entry exclude itself or an entry inside the directory exclude
InsideOf(exclude, path) ==
  \/ exclude = AbsolutePath(path)
  \/ IsPrefix(exclude \o <<"/">>, AbsolutePath(path))

\* C40: an exclude prefix excludes only the entry of that path and the entries
\* inside that directory: an entry that is neither, such as a sibling whose name
\* begins with the same characters, is not reported EXCLUDED.
C40_AsStated ==
  \A t \in DOMAIN tasks :
    (cfg.mode = "sync" /\ tasks[t].st = "done" /\ ~Entries[t].error
       /\ tasks[t].status = "EXCLUDED") =>
      \E exclude \in cfg.excludes : InsideOf(exclude, PathOf(t))

\* bar is excluded and the file barn beside it is reported EXCLUDED without a
\* remote call, though it is neither bar nor inside bar
C40_Sibling ==
  /\ cfg.mode = "sync" /\ cfg.excludes = {ExcludeBar}
  /\ \E t \in DOMAIN tasks :
       /\ tasks[t].st = "done" /\ PathOf(t) = <<"barn">> /\ ~Entries[t].error
       /\ tasks[t].status = "EXCLUDED" /\ tasks[t].ncalls = 0
       /\ ~InsideOf(ExcludeBar, PathOf(t))

(***************************************************************************)
(* SpecForever: get of the root, or createFolderUnlessItExists of bar,     *)
(* against a remote that may refuse every request, for ever; the event     *)
(* loop runs what is ready and the remote answers what it is sent.         *)
(***************************************************************************)
\* the remote answers a request with a failure, as often as it is asked
Refuse(w) ==
  /\ proc[w].pc = "call"
  /\ \E code \in cfg.faults :
       /\ code = 409 => proc[w].req.op = "create"
       /\ proc' = [proc EXCEPT ![w] = Served(proc[w], Resp(code, NoItem, <<>>, 0, 0))]
  /\ UNCHANGED <<remote, nextId, cache, queue, walked, tasks, prev, run, cfg, faultsLeft, main>>

InitForever ==
  /\ cfg \in Calls({<<Call("open", <<>>)>>, <<Call("mk", <<"bar">>)>>},
                   {TRUE}, {FALSE}, {TRUE}, {429, 500, 409}, {0})
  /\ InitRemote
  /\ faultsLeft = 0
  /\ InitCommon

NextForever ==
  \/ Push
  \/ \E w \in Workers :
       \/ Take(w)
       \/ ServeOk(w)
       \/ Refuse(w)
       \/ Continue(w)

SpecForever == InitForever /\ [][NextForever]_vars /\ WF_vars(NextForever)

\* the attempts that a frame with rt and rc retries left can have made of its
\* current request, the one in flight or just answered included
Spent(f) ==
  (IF f.req.op = "create" THEN (INIT_RETRY_TIMES - f.rc) * (INIT_RETRY_TIMES + 1) ELSE 0)
    + (INIT_RETRY_TIMES - f.rt) + 1

\* the counters of a wrapped call in flight are within the budget and bound
\* the attempts made
Budgeted ==
  \A w \in Workers :
    (proc[w].pc \in {"call", "resp"} /\ Proxied(proc[w].req.op)) =>
      /\ proc[w].rt \in 0..INIT_RETRY_TIMES
      /\ proc[w].req.op = "create" => proc[w].rc \in 0..INIT_RETRY_TIMES
      /\ proc[w].attempts + (IF proc[w].pc = "call" THEN 1 ELSE 0) <= Spent(proc[w])
      /\ proc[w].req.op # "create" => proc[w].attempts <= INIT_RETRY_TIMES + 1
      /\ proc[w].attempts <= (INIT_RETRY_TIMES + 1) * (INIT_RETRY_TIMES + 1)

\* the step sends the request of worker w again
Retries(w) ==
  /\ proc[w].pc = "resp" /\ proc'[w].pc = "call"
  /\ proc'[w].req = proc[w].req /\ proc'[w].attempts = proc[w].attempts

\* a retry takes one from a counter that is above 0: the rate-limit wrapper
\* from its own, the conflict wrapper from its own, starting the rate-limit
\* wrapper afresh
Decreases ==
  \A w \in Workers :
    Retries(w) =>
      \/ /\ proc[w].rt > 0 /\ proc'[w].rt = proc[w].rt - 1 /\ proc'[w].rc = proc[w].rc
      \/ /\ proc[w].req.op = "create"
         /\ proc[w].rc > 0 /\ proc'[w].rc = proc[w].rc - 1

\* every call has ended, with a result or with an error
AllEnded == \A t \in DOMAIN tasks : Done(t)

\* C39: every retry-wrapped call terminates even if the remote fails for ever:
\* each retry takes one from a remaining-attempts counter that is above 0, a
\* call wrapped once is sent at most INIT_RETRY_TIMES + 1 times and the create
\* of createFolder at most (INIT_RETRY_TIMES + 1) squared times, and every call
\* ends.
C39_Terminates == []Budgeted /\ [][Decreases]_vars /\ <>AllEnded

\* createFolder has ended with a failure after (INIT_RETRY_TIMES + 1) squared
\* create requests, all refused: INIT_RETRY_TIMES + 1 times the rate-limit
\* wrapper was retried INIT_RETRY_TIMES times on a 429 and then let a 409 through
C39_Witness ==
  \E t \in DOMAIN tasks :
    /\ Done(t) /\ tasks[t].req.op = "create" /\ tasks[t].status = "FAILURE"
    /\ tasks[t].attempts = (INIT_RETRY_TIMES + 1) * (INIT_RETRY_TIMES + 1)
    /\ Len(tasks[t].creates) = tasks[t].attempts
    /\ tasks[t].n429 = INIT_RETRY_TIMES * (INIT_RETRY_TIMES + 1)
    /\ tasks[t].nother = INIT_RETRY_TIMES + 1
    /\ tasks[t].error = tasks[t].last /\ tasks[t].last.code = 409
====
